---- MODULE Spec2Model ----
(***************************************************************************)
(* Model of the filmshell decoders: the viewer's frame scanner             *)
(* (film-parser.ts), the fire-event scanner (fire-scanner.ts) and the      *)
(* CLI position extractors (motion-extractor.ts).                          *)
(* Byte buffers are sequences of integers 0..255; a 0-based offset i of    *)
(* the source is element i+1 of the sequence.                              *)
(***************************************************************************)
EXTENDS Integers, Naturals, Sequences, FiniteSets, TLC

VARIABLES
    \* viewer (main.ts): the film offered by the server and the app state
    filmChunks,          \* the chunks of the first film of the film list
    otherChunks,         \* the chunks of the second film, or NoFilm
    activeMatchId,       \* string | null: the film loadFilm was last called for
    allData,             \* combined Uint8Array, or Null before a load
    chunkOffsets,        \* start offset of each chunk in allData
    frames,              \* ParsedFrame[]
    selectedFrameIndex,  \* number | null
    fieldMap,            \* the label buffer processData hands to the hex view
    hexSelected,         \* HexView: state.selectedFrameIndex
    tableSelected,       \* FrameTable: selectedFrameIndex
    clickedOffset,       \* offset passed to the last onByteClick, or Null
    clickResult,         \* what frameAtOffset returned for it
    \* fire scanner (fire-scanner.ts): one call of scanFireEvents
    fireData,            \* the data argument
    fireOffsets,         \* the chunkOffsets argument
    fireScanned,         \* the call has returned
    events,              \* result.events
    weaponCounts,        \* result.weaponCounts, a function from names to counts
    \* position extractors (motion-extractor.ts): one call of an extractor
    motionChunks,        \* the chunks argument
    motionLayout,        \* which extractor is called
    motionPlayer,        \* the playerIndex argument
    motionDone,          \* the call has returned
    positions,           \* the MotionPoint[] it returned
    detection,           \* what detectBase09Variant returned to extractRawPositions
    \* Bond parser (bond-parser.ts): one call of parseBond
    bondSource,          \* how the buffer was put together
    bondBuffer,          \* the buffer argument
    bondDone,            \* the call has returned or thrown
    bondResult,          \* the BondDocument it returned
    \* repeated decoding: parseBond, parseFrames and scanFireEvents on one buffer
    repeatBuffer,        \* the buffer handed to every call
    repeatInput,         \* the bytes the buffer held before the first call
    repeatCalls,         \* how often each decoder has been called
    repeatFirst,         \* what the first call of each decoder returned
    repeatLast,          \* what the last call of each decoder returned
    \* aim page (aim main.ts): one call of scalePositions
    scaleObjects,        \* the objects of the map
    scaleFrames,         \* the position frames of player 0: coord1 and coord2
    scaleDone,           \* the call has returned
    scaleLocals,         \* the anchor and the scale scalePositions worked with
    worldPositions       \* the WorldPos[] it returned

viewerVars == <<filmChunks, otherChunks, activeMatchId, allData, chunkOffsets, frames,
                selectedFrameIndex, fieldMap, hexSelected, tableSelected,
                clickedOffset, clickResult>>

motionVars == <<motionChunks, motionLayout, motionPlayer, motionDone, positions, detection>>

fireVars == <<fireData, fireOffsets, fireScanned, events, weaponCounts>>

bondVars == <<bondSource, bondBuffer, bondDone, bondResult>>

repeatVars == <<repeatBuffer, repeatInput, repeatCalls, repeatFirst, repeatLast>>

scaleVars == <<scaleObjects, scaleFrames, scaleDone, scaleLocals, worldPositions>>

vars == <<filmChunks, otherChunks, activeMatchId, allData, chunkOffsets, frames,
          selectedFrameIndex, fieldMap, hexSelected, tableSelected,
          clickedOffset, clickResult,
          fireData, fireOffsets, fireScanned, events, weaponCounts,
          motionChunks, motionLayout, motionPlayer, motionDone, positions, detection,
          bondSource, bondBuffer, bondDone, bondResult,
          repeatBuffer, repeatInput, repeatCalls, repeatFirst, repeatLast,
          scaleObjects, scaleFrames, scaleDone, scaleLocals, worldPositions>>

----------------------------------------------------------------------------
(* Bounds *)

\* number of segments a generated film is put together from
MaxSegs == 2
\* number of fire records in a generated buffer with several records
MaxFireRecs == 2
\* number of frame records a generated film for the extractors is put together from
MaxMotionRecs == 3

----------------------------------------------------------------------------
(* Generic helpers *)

\* null / undefined of the source; every modelled number is >= 0 where it is used
Null == -1
Undefined == -1
\* allData before any film is loaded (no byte buffer holds -1)
NullData == <<-1>>
\* the film list has no second film
NoFilm == <<NullData>>

\* data[i] for a 0-based offset i that is in range
At(data, i) == data[i + 1]

Abs(x) == IF x < 0 THEN -x ELSE x

RECURSIVE Concat(_)
Concat(ss) == IF ss = <<>> THEN <<>> ELSE Head(ss) \o Concat(Tail(ss))

RECURSIVE SumLen(_)
SumLen(ss) == IF ss = <<>> THEN 0 ELSE Len(Head(ss)) + SumLen(Tail(ss))

Zeros(n) == [i \in 1..n |-> 0]

RECURSIVE SumSeq(_)
SumSeq(s) == IF s = <<>> THEN 0 ELSE Head(s) + SumSeq(Tail(s))

\* bitwise helpers on bytes
Shr(x, n) == x \div (2 ^ n)
LowBits(x, n) == x % (2 ^ n)

----------------------------------------------------------------------------
(* film-parser.ts *)

FRAME_SIZE == 20

MarkerAt(data, i) ==
    /\ At(data, i) = 160       \* 0xa0
    /\ At(data, i + 1) = 123   \* 0x7b
    /\ At(data, i + 2) = 66    \* 0x42

\* findMarkers collecting with unshift instead of push: positions come out descending
findMarkersUnshift(data) ==
    LET asc == SelectSeq([k \in 1..(IF Len(data) > 2 THEN Len(data) - 2 ELSE 0) |-> k - 1],
                         LAMBDA i : MarkerAt(data, i))
    IN  [k \in 1..Len(asc) |-> asc[Len(asc) + 1 - k]]

\* the loop of findMarkers: for (i = 0; i < data.length - 2; i++), pushing the
\* matching i in ascending order
findMarkers(data) ==
    SelectSeq([k \in 1..(IF Len(data) > 2 THEN Len(data) - 2 ELSE 0) |-> k - 1],
              LAMBDA i : MarkerAt(data, i))

\* n.toString(16).padStart(2, '0'), as the two hex digits
toHex2(n) == <<n \div 16, n % 16>>

\* the backward loop of getChunkIndex
RECURSIVE getChunkIndexFrom(_, _, _)
getChunkIndexFrom(offset, offs, i) ==
    IF i < 0 THEN 0
    ELSE IF offset >= At(offs, i) THEN i
    ELSE getChunkIndexFrom(offset, offs, i - 1)

getChunkIndex(offset, offs) == getChunkIndexFrom(offset, offs, Len(offs) - 1)

\* the length guard written with >= : a frame ending exactly at the buffer end is dropped
FrameFitsOffByOne(data, pos) == ~(pos + FRAME_SIZE >= Len(data))

\* the length guard of parseFrames: if (pos + 20 > data.length) continue
FrameFits(data, pos) == ~(pos + FRAME_SIZE > Len(data))

\* one ParsedFrame, built as the loop body of parseFrames builds it
hasPlayerOnly08(byte5, baseType) == byte5 = 64 /\ baseType = 8

hasPlayer(byte5, baseType) == byte5 = 64 /\ (baseType = 9 \/ baseType = 8)

MakeFrame(data, offs, pos, index) ==
    LET tick == At(data, pos + 3) * 256 + At(data, pos + 4)
        byte5 == At(data, pos + 5)
        byte6 == At(data, pos + 6)
        byte7 == At(data, pos + 7)
        byte8 == At(data, pos + 8)
        formatByte == At(data, pos + 9)
        playerIndex == Shr(byte6, 5) % 8
        baseType == byte6 % 32
        dataBytes == [d \in 1..10 |->
                        IF pos + 10 + (d - 1) < Len(data)
                        THEN At(data, pos + 10 + (d - 1)) ELSE 0]
        d0HiNib == Shr(dataBytes[1], 4)
        isPositionFrame == byte5 = 64 /\ baseType = 9 /\ d0HiNib = 4
    IN  [ index |-> index,
          offset |-> pos,
          chunkIndex |-> getChunkIndex(pos, offs),
          tick |-> tick,
          byte5 |-> byte5, byte6 |-> byte6, byte7 |-> byte7, byte8 |-> byte8,
          playerIndex |-> playerIndex,
          baseType |-> baseType,
          formatByte |-> formatByte,
          dataBytes |-> dataBytes,
          frameTypeHex |-> toHex2(byte5) \o toHex2(byte6) \o toHex2(byte7) \o toHex2(byte8),
          subtypeHex |-> toHex2(byte7) \o toHex2(byte8),
          isPositionFrame |-> isPositionFrame,
          hasPlayer |-> hasPlayer(byte5, baseType),
          coord1 |-> IF isPositionFrame
                     THEN dataBytes[1] * 256 + dataBytes[2] ELSE Undefined,
          coord2 |-> IF isPositionFrame
                     THEN (dataBytes[3] % 16) * 256 + dataBytes[4] ELSE Undefined ]

\* the loop of parseFrames over the markers
RECURSIVE parseFramesFrom(_, _, _, _, _)
parseFramesFrom(data, offs, markers, idx, acc) ==
    IF idx > Len(markers) THEN acc
    ELSE LET pos == markers[idx]
         IN  parseFramesFrom(data, offs, markers, idx + 1,
                IF FrameFits(data, pos)
                THEN Append(acc, MakeFrame(data, offs, pos, Len(acc)))
                ELSE acc)

parseFrames(data, offs) == parseFramesFrom(data, offs, findMarkers(data), 1, <<>>)

\* the binary search of frameAtOffset; returns a 0-based index or Null
RECURSIVE frameAtOffsetFrom(_, _, _, _)
frameAtOffsetFrom(offset, fs, lo, hi) ==
    IF lo > hi THEN Null
    ELSE LET mid == (lo + hi) \div 2
             start == fs[mid + 1].offset
             end == start + 19
         IN  IF offset < start THEN frameAtOffsetFrom(offset, fs, lo, mid - 1)
             ELSE IF offset > end THEN frameAtOffsetFrom(offset, fs, mid + 1, hi)
             ELSE mid

\* frameAtOffset with a span end of start + 20: one byte too long
RECURSIVE frameAtOffsetLongFrom(_, _, _, _)
frameAtOffsetLongFrom(offset, fs, lo, hi) ==
    IF lo > hi THEN Null
    ELSE LET mid == (lo + hi) \div 2
             start == fs[mid + 1].offset
             end == start + 20
         IN  IF offset < start THEN frameAtOffsetLongFrom(offset, fs, lo, mid - 1)
             ELSE IF offset > end THEN frameAtOffsetLongFrom(offset, fs, mid + 1, hi)
             ELSE mid

frameAtOffsetLong(offset, fs) == frameAtOffsetLongFrom(offset, fs, 0, Len(fs) - 1)

frameAtOffset(offset, fs) == frameAtOffsetFrom(offset, fs, 0, Len(fs) - 1)

\* the FieldType enum
FieldNone == 0
FieldMarker == 1
FieldTick == 2
FieldFrameType == 3
FieldFormatByte == 4
FieldDataPos == 5
FieldDataState == 6
FieldDataExt == 7

\* the labels of one frame written into map with the given label for the
\* data bytes d0..d3, each group of bytes under its own length test
LabelWith(map, frame, dataFieldType) ==
    LET pos == frame.offset
        len == Len(map)
    IN  [i \in 1..len |->
            LET rel == (i - 1) - pos
            IN  IF rel \in 0..2 /\ pos + 2 < len THEN FieldMarker
                ELSE IF rel \in 3..4 /\ pos + 4 < len THEN FieldTick
                ELSE IF rel \in 5..8 /\ pos + 8 < len THEN FieldFrameType
                ELSE IF rel = 9 /\ pos + 9 < len THEN FieldFormatByte
                ELSE IF rel \in 10..13 THEN dataFieldType
                ELSE IF rel \in 14..19 THEN FieldDataExt
                ELSE map[i]]

\* the two data labels taken for each other
LabelFrameSwapped(map, frame) ==
    LabelWith(map, frame, IF frame.isPositionFrame THEN FieldDataState ELSE FieldDataPos)

\* the loop body of buildFieldMap
LabelFrame(map, frame) ==
    LabelWith(map, frame, IF frame.isPositionFrame THEN FieldDataPos ELSE FieldDataState)

\* the for loop of buildFieldMap over the frames from number k on
RECURSIVE buildFieldMapFrom(_, _, _)
buildFieldMapFrom(map, fs, k) ==
    IF k > Len(fs) THEN map
    ELSE buildFieldMapFrom(LabelFrame(map, fs[k]), fs, k + 1)

\* buildFieldMap(data, frames): a new Uint8Array(data.length), all None
buildFieldMap(data, fs) == buildFieldMapFrom(Zeros(Len(data)), fs, 1)

----------------------------------------------------------------------------
(* Parts of the state a specification does not use stay at these values *)

EmptyCounts == [n \in {} |-> 0]

\* detectBase09Variant has not been called
NoDetection == [variant |-> "none"]

\* parseBond has not returned
NoDocument == [k |-> "none"]

\* no buffer has been put together
NoSource == [fam |-> "none", kinds |-> <<>>, cut |-> 0, declared |-> 0, rest |-> 0]

BondIdle ==
    /\ bondSource = NoSource
    /\ bondBuffer = <<>>
    /\ bondDone = FALSE
    /\ bondResult = NoDocument

\* no decoder has been called
NoCalls == [bond |-> 0, frames |-> 0, fire |-> 0]
NoOutputs ==
    [bond |-> NoDocument, frames |-> <<>>,
     fire |-> [events |-> <<>>, weaponCounts |-> EmptyCounts]]

RepeatIdle ==
    /\ repeatBuffer = <<>>
    /\ repeatInput = <<>>
    /\ repeatCalls = NoCalls
    /\ repeatFirst = NoOutputs
    /\ repeatLast = NoOutputs

\* a quotient of two integers, the divisor never negative; a divisor of 0
\* under a positive dividend stands for Infinity
Frac(n, d) == [num |-> n, den |-> d]

\* scalePositions has not been called
NoLocals == [mode |-> "none"]

ScaleIdle ==
    /\ scaleObjects = <<>>
    /\ scaleFrames = <<>>
    /\ scaleDone = FALSE
    /\ scaleLocals = NoLocals
    /\ worldPositions = <<>>

FireIdle ==
    /\ fireData = <<>>
    /\ fireOffsets = <<>>
    /\ fireScanned = FALSE
    /\ events = <<>>
    /\ weaponCounts = EmptyCounts

MotionIdle ==
    /\ motionChunks = <<>>
    /\ motionLayout = "none"
    /\ motionPlayer = 0
    /\ motionDone = FALSE
    /\ positions = <<>>
    /\ detection = NoDetection

ViewerIdle ==
    /\ filmChunks = <<>>
    /\ otherChunks = NoFilm
    /\ activeMatchId = Null
    /\ allData = NullData
    /\ chunkOffsets = <<>>
    /\ frames = <<>>
    /\ selectedFrameIndex = Null
    /\ fieldMap = <<>>
    /\ hexSelected = Null
    /\ tableSelected = Null
    /\ clickedOffset = Null
    /\ clickResult = Null

----------------------------------------------------------------------------
(* fire-scanner.ts *)

\* the weapon id table, keyed by the 16 hex digits of the id
WEAPON_IDS ==
  {
    <<<<4, 8, 12, 1, 9, 13, 2, 13, 4, 2, 12, 9, 6, 7, 9, 15>>, "MA40 AR">>,
    <<<<15, 4, 0, 8, 1, 9, 0, 15, 4, 2, 12, 9, 6, 7, 9, 15>>, "Mk51 Sidekick">>,
    <<<<2, 11, 1, 8, 2, 4, 13, 5, 4, 2, 12, 9, 6, 7, 9, 15>>, "BR75">>,
    <<<<2, 15, 11, 2, 1, 12, 8, 7, 4, 2, 12, 9, 6, 7, 9, 15>>, "M392 Bandit">>,
    <<<<15, 13, 9, 8, 5, 5, 4, 12, 4, 2, 12, 9, 6, 7, 9, 15>>, "VK78 Commando">>,
    <<<<0, 10, 1, 9, 9, 2, 11, 12, 4, 2, 12, 9, 6, 7, 9, 15>>, "S7 Sniper">>,
    <<<<11, 6, 1, 9, 13, 8, 4, 10, 4, 2, 12, 9, 6, 7, 9, 15>>, "CQS48 Bulldog">>,
    <<<<7, 1, 10, 11, 0, 10, 2, 12, 4, 2, 12, 9, 6, 7, 9, 15>>, "M41 SPNKr">>,
    <<<<11, 5, 3, 3, 9, 5, 7, 14, 4, 2, 12, 9, 6, 7, 9, 15>>, "Needler">>,
    <<<<7, 14, 5, 3, 11, 3, 12, 6, 4, 2, 12, 9, 6, 7, 9, 15>>, "Pulse Carbine">>,
    <<<<0, 4, 14, 7, 15, 0, 0, 11, 4, 2, 12, 9, 6, 7, 9, 15>>, "Plasma Pistol">>,
    <<<<12, 2, 4, 14, 5, 4, 9, 14, 4, 2, 12, 9, 6, 7, 9, 15>>, "Sentinel Beam">>,
    <<<<3, 13, 3, 4, 4, 8, 8, 5, 4, 2, 12, 9, 6, 7, 9, 15>>, "Heatwave">>,
    <<<<15, 5, 14, 15, 3, 11, 13, 11, 4, 2, 12, 9, 6, 7, 9, 15>>, "Stalker Rifle">>,
    <<<<15, 12, 12, 6, 10, 10, 7, 6, 4, 2, 12, 9, 6, 7, 9, 15>>, "Shock Rifle">>,
    <<<<7, 13, 14, 11, 1, 3, 3, 15, 4, 2, 12, 9, 6, 7, 9, 15>>, "Mangler">>,
    <<<<12, 11, 3, 0, 14, 12, 5, 14, 4, 2, 12, 9, 6, 7, 9, 15>>, "Disruptor">>,
    <<<<2, 11, 1, 13, 6, 1, 14, 4, 4, 2, 12, 9, 6, 7, 9, 15>>, "Ravager">>,
    <<<<7, 10, 1, 1, 10, 14, 14, 15, 4, 2, 12, 9, 6, 7, 9, 15>>, "Skewer">>,
    <<<<12, 2, 10, 6, 13, 5, 14, 0, 4, 2, 12, 9, 6, 7, 9, 15>>, "Cindershot">>,
    <<<<1, 15, 6, 10, 14, 6, 5, 5, 4, 2, 12, 9, 6, 7, 9, 15>>, "Hydra">>,
    <<<<8, 10, 15, 12, 0, 8, 5, 5, 4, 2, 12, 9, 6, 7, 9, 15>>, "Gravity Hammer">>,
    <<<<1, 4, 8, 8, 13, 0, 11, 11, 4, 2, 12, 9, 6, 7, 9, 15>>, "Energy Sword">>,
    <<<<11, 6, 13, 11, 14, 10, 13, 8, 4, 2, 12, 9, 6, 7, 9, 15>>, "Frag Grenade">>,
    <<<<12, 1, 14, 1, 11, 10, 11, 0, 4, 2, 12, 9, 6, 7, 9, 15>>, "Plasma Grenade">>
  }

\* '42c9679f'
WEAPON_SUFFIX == <<4, 2, 12, 9, 6, 7, 9, 15>>

\* readShifted without the & 0xff mask
readShiftedNoMask(data, pos) ==
    IF pos + 1 >= Len(data) THEN 0
    ELSE At(data, pos) * 16 + Shr(At(data, pos + 1), 4)

\* ((data[pos] << 4) | (data[pos + 1] >> 4)) & 0xff, 0 past the end
readShifted(data, pos) ==
    IF pos + 1 >= Len(data) THEN 0
    ELSE (At(data, pos) * 16 + Shr(At(data, pos + 1), 4)) % 256

\* count nibble-shifted bytes from pos, as hex digits
readShiftedHex(data, pos, count) ==
    [k \in 1..(2 * count) |->
        toHex2(readShifted(data, pos + ((k - 1) \div 2)))[((k - 1) % 2) + 1]]

readShiftedU16(data, pos) == readShifted(data, pos) * 256 + readShifted(data, pos + 1)

\* the suffix check left out
endsWithAnything(s, suffix) == TRUE

\* s.endsWith(suffix)
endsWith(s, suffix) ==
    /\ Len(s) >= Len(suffix)
    /\ SubSeq(s, Len(s) - Len(suffix) + 1, Len(s)) = suffix

\* WEAPON_IDS[weaponId] || 'Unknown'
WeaponNameOf(weaponId) ==
    IF \E e \in WEAPON_IDS : e[1] = weaponId
    THEN (CHOOSE e \in WEAPON_IDS : e[1] = weaponId)[2]
    ELSE "Unknown"

\* the lead checks of the scan loop at offset i: b0 = 0x0d, b1 = 0x26, b3 & 0xfc = 0x40
LeadMatches(data, i) ==
    /\ (At(data, i) * 16 + Shr(At(data, i + 1), 4)) % 256 = 13
    /\ (At(data, i + 1) * 16 + Shr(At(data, i + 2), 4)) % 256 = 38
    /\ ((At(data, i + 3) * 16 + Shr(At(data, i + 4), 4)) % 256) \div 4 = 16

\* the checks of one loop iteration, in the order of the source
FireAccepts(data, i) ==
    /\ LeadMatches(data, i)
    /\ ~(i + 17 >= Len(data))
    /\ readShifted(data, i + 5) \in {1, 3}
    /\ readShifted(data, i + 4) % 4 = 0
    /\ endsWith(readShiftedHex(data, i + 6, 8), WEAPON_SUFFIX)

\* octant = octantByte & 0x07 (decodeOctahedralAim)
OctantOf(octantByte) == octantByte % 8

\* c without the clamp: 1 - a - b
ThirdComponentUnclamped(a, b) == 255 - a - b

\* c = Math.max(0, 1 - a - b), with a, b and c counted in 255ths
ThirdComponent(a, b) == IF 255 - a - b > 0 THEN 255 - a - b ELSE 0

\* decodeOctahedralAim(octantByte, aimUint16) in exact arithmetic: the vector
\* returned is (x, y, z) / sqrt(lenSq); x, y, z are the signed components in
\* 255ths and lenSq = x*x + y*y + z*z is the square of len in 255ths, so
\* that len < 1e-10 holds exactly when lenSq = 0
decodeOctahedralAim(octantByte, aimUint16) ==
    LET octant == OctantOf(octantByte)
        u == Shr(aimUint16, 8) % 256
        v == aimUint16 % 256
        a == u
        b == v
        c == ThirdComponent(a, b)
        sx == IF octant % 2 # 0 THEN -1 ELSE 1
        sy == IF Shr(octant, 1) % 2 # 0 THEN -1 ELSE 1
        sz == IF Shr(octant, 2) % 2 # 0 THEN -1 ELSE 1
        x == sx * a
        y == sy * b
        z == sz * c
        lenSq == x * x + y * y + z * z
    IN  IF lenSq = 0 THEN [x |-> 0, y |-> 0, z |-> 1, lenSq |-> 1]
        ELSE [x |-> x, y |-> y, z |-> z, lenSq |-> lenSq]

\* the FireEvent with the octant byte read one position too far
MakeFireEventOctantSlip(data, offs, i) ==
    LET weaponId == readShiftedHex(data, i + 6, 8)
    IN  [ offset |-> i,
          chunkIndex |-> getChunkIndex(i, offs),
          counter |-> readShifted(data, i + 4),
          slot |-> readShifted(data, i + 5),
          weaponId |-> weaponId,
          weaponName |-> WeaponNameOf(weaponId),
          octantByte |-> readShifted(data, i + 15),
          aimUint16 |-> readShiftedU16(data, i + 15),
          aimDirection |-> decodeOctahedralAim(readShifted(data, i + 15),
                                               readShiftedU16(data, i + 15)) ]

\* the FireEvent pushed for an accepted offset i
MakeFireEvent(data, offs, i) ==
    LET weaponId == readShiftedHex(data, i + 6, 8)
    IN  [ offset |-> i,
          chunkIndex |-> getChunkIndex(i, offs),
          counter |-> readShifted(data, i + 4),
          slot |-> readShifted(data, i + 5),
          weaponId |-> weaponId,
          weaponName |-> WeaponNameOf(weaponId),
          octantByte |-> readShifted(data, i + 14),
          aimUint16 |-> readShiftedU16(data, i + 15),
          aimDirection |-> decodeOctahedralAim(readShifted(data, i + 14),
                                               readShiftedU16(data, i + 15)) ]

\* weaponCounts.set(name, 1): the previous count is lost
CountsSetOne(counts, name) ==
    [n \in DOMAIN counts \cup {name} |-> IF n = name THEN 1 ELSE counts[n]]

\* weaponCounts.set(name, (weaponCounts.get(name) || 0) + 1)
CountsAdd(counts, name) ==
    [n \in DOMAIN counts \cup {name} |->
        IF n = name THEN (IF name \in DOMAIN counts THEN counts[name] ELSE 0) + 1
        ELSE counts[n]]

RECURSIVE CountsOver(_, _, _)
CountsOver(evs, k, counts) ==
    IF k > Len(evs) THEN counts
    ELSE CountsOver(evs, k + 1, CountsAdd(counts, evs[k].weaponName))

\* scanFireEvents: for (i = 0; i < data.length - 20; i++), one event per accepted i
scanFireEvents(data, offs) ==
    LET accepted == SelectSeq([k \in 1..(IF Len(data) > 20 THEN Len(data) - 20 ELSE 0) |-> k - 1],
                              LAMBDA i : FireAccepts(data, i))
        evs == [k \in 1..Len(accepted) |-> MakeFireEvent(data, offs, accepted[k])]
    IN  [events |-> evs, weaponCounts |-> CountsOver(evs, 1, EmptyCounts)]

----------------------------------------------------------------------------
(* motion-extractor.ts *)

getPlayerIndex(frameTypeByte1) == Shr(frameTypeByte1, 5) % 8

getBaseType(frameTypeByte1) == frameTypeByte1 % 32

\* Buffer.from(baseHex, 'hex') with bytes[1] = (bytes[1] & 0x1f) | ((playerIndex & 7) << 5),
\* back to hex digits
buildFrameTypeHex(baseBytes, playerIndex) ==
    toHex2(baseBytes[1]) \o toHex2((baseBytes[2] % 32) + (playerIndex % 8) * 32)
        \o toHex2(baseBytes[3]) \o toHex2(baseBytes[4])

\* '40088064'
Base40088064 == <<64, 8, 128, 100>>

\* findMarkers of the CLI: for (i = 0; i < buffer.length - 3; i++)
findMarkersCli(buffer) ==
    SelectSeq([k \in 1..(IF Len(buffer) > 3 THEN Len(buffer) - 3 ELSE 0) |-> k - 1],
              LAMBDA i : MarkerAt(buffer, i))

\* chunk.subarray(pos + 5, pos + 9).toString('hex')
TypeBytesHex(chunk, pos) ==
    toHex2(At(chunk, pos + 5)) \o toHex2(At(chunk, pos + 6))
        \o toHex2(At(chunk, pos + 7)) \o toHex2(At(chunk, pos + 8))

\* the local variables of an extractor before its loops
ExtractorStart ==
    [prev1 |-> Null, prev2 |-> Null, cum1 |-> 0, cum2 |-> 0, frameCount |-> 0,
     positions |-> <<>>]

\* positions.push({frame: frameCount++, ...}); prev = raw
PushPoint(st, cum1, cum2, raw1, raw2) ==
    [prev1 |-> raw1, prev2 |-> raw2, cum1 |-> cum1, cum2 |-> cum2,
     frameCount |-> st.frameCount + 1,
     positions |-> Append(st.positions,
                     [frame |-> st.frameCount, cumCoord1 |-> cum1, cumCoord2 |-> cum2,
                      raw1 |-> raw1, raw2 |-> raw2])]

\* the coord1 wrap with the positive threshold at half the modulus
Wrap88064C1Symmetric(delta1) ==
    IF delta1 > 32768 THEN delta1 - 65536
    ELSE IF delta1 < -32768 THEN delta1 + 65536
    ELSE delta1

\* extract40088064, coord1: if (delta1 > 16384) -= 65536 else if (delta1 < -32768) += 65536
Wrap88064C1(delta1) ==
    IF delta1 > 16384 THEN delta1 - 65536
    ELSE IF delta1 < -32768 THEN delta1 + 65536
    ELSE delta1

\* extract40088064, coord2: the two if / else-if chains, one after the other
Wrap88064C2(delta2) ==
    LET a == IF delta2 > 32768 THEN delta2 - 65536
             ELSE IF delta2 > 16384 THEN delta2 - 32768
             ELSE delta2
    IN  IF a < -32768 THEN a + 65536
        ELSE IF a < -16384 THEN a + 32768
        ELSE a

\* one iteration of the marker loop of extract40088064
Step40088064(st, chunk, pos, targetType) ==
    IF pos + 13 >= Len(chunk) THEN st
    ELSE IF TypeBytesHex(chunk, pos) # targetType THEN st
    ELSE LET b0 == At(chunk, pos + 10)
             b1 == At(chunk, pos + 11)
             b2 == At(chunk, pos + 12)
             b3 == At(chunk, pos + 13) % 128
             coord1Raw == b0 * 256 + b1
             coord2Raw == b2 * 256 + b3
             havePrev == st.prev1 # Null /\ st.prev2 # Null
             delta1 == Wrap88064C1(coord1Raw - st.prev1)
             delta2 == Wrap88064C2(coord2Raw - st.prev2)
         IN  PushPoint(st,
                       IF havePrev THEN st.cum1 + delta1 ELSE st.cum1,
                       IF havePrev THEN st.cum2 + delta2 ELSE st.cum2,
                       coord1Raw, coord2Raw)

\* base-0x09, coord1: if (delta1 > 32768) -= 65536; if (delta1 < -32768) += 65536
Wrap16(delta1) ==
    LET a == IF delta1 > 32768 THEN delta1 - 65536 ELSE delta1
    IN  IF a < -32768 THEN a + 65536 ELSE a

\* the 12-bit wrap with the modulus written as 4095
Wrap12OffByOne(delta2) ==
    LET a == IF delta2 > 2048 THEN delta2 - 4095 ELSE delta2
    IN  IF a < -2048 THEN a + 4095 ELSE a

\* base-0x09, coord2: if (delta2 > 2048) -= 4096; if (delta2 < -2048) += 4096
Wrap12(delta2) ==
    LET a == IF delta2 > 2048 THEN delta2 - 4096 ELSE delta2
    IN  IF a < -2048 THEN a + 4096 ELSE a

\* DISCONTINUITY_THRESHOLD of extractBase09Position
DISCONTINUITY_THRESHOLD_BASE09 == 4000

\* the discontinuity filter left out
KeepDelta(delta) == delta

\* if (Math.abs(delta) > DISCONTINUITY_THRESHOLD) delta = 0
DropDiscontinuity(delta) ==
    IF Abs(delta) > DISCONTINUITY_THRESHOLD_BASE09 THEN 0 ELSE delta

\* the filter without the test of the player index
IsBase09PositionFrameAnyPlayer(chunk, pos, playerIndex) ==
    /\ At(chunk, pos + 5) = 64
    /\ getBaseType(At(chunk, pos + 6)) = 9
    /\ Shr(At(chunk, pos + 10), 4) = 4

\* the filter without the test of the high nibble of data byte 0
IsBase09PositionFrameAnyNibble(chunk, pos, playerIndex) ==
    /\ At(chunk, pos + 5) = 64
    /\ getPlayerIndex(At(chunk, pos + 6)) = playerIndex
    /\ getBaseType(At(chunk, pos + 6)) = 9

\* the filter of the base-0x09 extractors on a frame at pos
IsBase09PositionFrame(chunk, pos, playerIndex) ==
    /\ At(chunk, pos + 5) = 64
    /\ getPlayerIndex(At(chunk, pos + 6)) = playerIndex
    /\ getBaseType(At(chunk, pos + 6)) = 9
    /\ Shr(At(chunk, pos + 10), 4) = 4

\* extractBase09Position pushing frame: frameCount without the increment
StepBase09NoIncrement(st, chunk, pos, playerIndex) ==
    IF pos + 13 >= Len(chunk) THEN st
    ELSE IF ~IsBase09PositionFrame(chunk, pos, playerIndex) THEN st
    ELSE LET c1 == At(chunk, pos + 10) * 256 + At(chunk, pos + 11)
             c2 == (At(chunk, pos + 12) % 16) * 256 + At(chunk, pos + 13)
             havePrev == st.prev1 # Null /\ st.prev2 # Null
             delta1 == DropDiscontinuity(Wrap16(c1 - st.prev1))
             delta2 == DropDiscontinuity(Wrap12(c2 - st.prev2))
             next == PushPoint(st,
                       IF havePrev THEN st.cum1 + delta1 ELSE st.cum1,
                       IF havePrev THEN st.cum2 + delta2 ELSE st.cum2,
                       c1, c2)
         IN  [next EXCEPT !.frameCount = st.frameCount]

\* one iteration of the marker loop of extractBase09Position
StepBase09(st, chunk, pos, playerIndex) ==
    IF pos + 13 >= Len(chunk) THEN st
    ELSE IF ~IsBase09PositionFrame(chunk, pos, playerIndex) THEN st
    ELSE LET c1 == At(chunk, pos + 10) * 256 + At(chunk, pos + 11)
             c2 == (At(chunk, pos + 12) % 16) * 256 + At(chunk, pos + 13)
             havePrev == st.prev1 # Null /\ st.prev2 # Null
             delta1 == DropDiscontinuity(Wrap16(c1 - st.prev1))
             delta2 == DropDiscontinuity(Wrap12(c2 - st.prev2))
         IN  PushPoint(st,
                       IF havePrev THEN st.cum1 + delta1 ELSE st.cum1,
                       IF havePrev THEN st.cum2 + delta2 ELSE st.cum2,
                       c1, c2)

\* b3 variant, coord1: if (delta1 > 256) -= 512; if (delta1 < -256) += 512
Wrap9(delta1) ==
    LET a == IF delta1 > 256 THEN delta1 - 512 ELSE delta1
    IN  IF a < -256 THEN a + 512 ELSE a

\* b3 variant, coord2: if (delta2 > 128) -= 256; if (delta2 < -128) += 256
Wrap8(delta2) ==
    LET a == IF delta2 > 128 THEN delta2 - 256 ELSE delta2
    IN  IF a < -128 THEN a + 256 ELSE a

\* DISCONTINUITY_THRESHOLD of extractBase09_b3variant
DISCONTINUITY_THRESHOLD_B3 == 60

\* extractBase09_b3variant leaving prevCoord1/2 unchanged when it skips a delta
StepB3variantStalePrev(st, chunk, pos, playerIndex) ==
    IF pos + 13 >= Len(chunk) THEN st
    ELSE IF ~IsBase09PositionFrame(chunk, pos, playerIndex) THEN st
    ELSE LET coord1Raw == (At(chunk, pos + 10) % 2) * 256 + At(chunk, pos + 11)
             coord2Raw == At(chunk, pos + 13)
             havePrev == st.prev1 # Null /\ st.prev2 # Null
             delta1 == Wrap9(coord1Raw - st.prev1)
             delta2 == Wrap8(coord2Raw - st.prev2)
             skip == Abs(delta1) > DISCONTINUITY_THRESHOLD_B3
                        \/ Abs(delta2) > DISCONTINUITY_THRESHOLD_B3
             next == PushPoint(st,
                       IF havePrev /\ ~skip THEN st.cum1 + delta1 ELSE st.cum1,
                       IF havePrev /\ ~skip THEN st.cum2 + delta2 ELSE st.cum2,
                       coord1Raw, coord2Raw)
         IN  IF havePrev /\ skip
             THEN [next EXCEPT !.prev1 = st.prev1, !.prev2 = st.prev2]
             ELSE next

\* one iteration of the marker loop of extractBase09_b3variant
StepB3variant(st, chunk, pos, playerIndex) ==
    IF pos + 13 >= Len(chunk) THEN st
    ELSE IF ~IsBase09PositionFrame(chunk, pos, playerIndex) THEN st
    ELSE LET coord1Raw == (At(chunk, pos + 10) % 2) * 256 + At(chunk, pos + 11)
             coord2Raw == At(chunk, pos + 13)
             havePrev == st.prev1 # Null /\ st.prev2 # Null
             delta1 == Wrap9(coord1Raw - st.prev1)
             delta2 == Wrap8(coord2Raw - st.prev2)
             skip == Abs(delta1) > DISCONTINUITY_THRESHOLD_B3
                        \/ Abs(delta2) > DISCONTINUITY_THRESHOLD_B3
         IN  PushPoint(st,
                       IF havePrev /\ ~skip THEN st.cum1 + delta1 ELSE st.cum1,
                       IF havePrev /\ ~skip THEN st.cum2 + delta2 ELSE st.cum2,
                       coord1Raw, coord2Raw)

Layouts == {"40088064", "base09", "b3variant"}

\* the loop body of the extractor of a layout
Step(layout, st, chunk, pos, playerIndex) ==
    CASE layout = "40088064" ->
            Step40088064(st, chunk, pos, buildFrameTypeHex(Base40088064, playerIndex))
      [] layout = "base09" -> StepBase09(st, chunk, pos, playerIndex)
      [] layout = "b3variant" -> StepB3variant(st, chunk, pos, playerIndex)

\* for (const pos of markers) over one chunk
\* the iterations for markers[lo..hi] in order, split in halves to keep the
\* evaluation shallow
RECURSIVE RunMarkerRange(_, _, _, _, _, _, _)
RunMarkerRange(layout, st, chunk, markers, lo, hi, playerIndex) ==
    IF lo > hi THEN st
    ELSE IF lo = hi THEN Step(layout, st, chunk, markers[lo], playerIndex)
    ELSE LET mid == (lo + hi) \div 2
             half == RunMarkerRange(layout, st, chunk, markers, lo, mid, playerIndex)
         IN  IF half.frameCount >= 0   \* the first half is computed before the second
             THEN RunMarkerRange(layout, half, chunk, markers, mid + 1, hi, playerIndex)
             ELSE half

RunMarkers(layout, st, chunk, markers, k, playerIndex) ==
    RunMarkerRange(layout, st, chunk, markers, k, Len(markers), playerIndex)

\* for (const chunk of chunks), the local variables carried from chunk to chunk
RECURSIVE RunChunks(_, _, _, _, _)
RunChunks(layout, st, chunks, c, playerIndex) ==
    IF c > Len(chunks) THEN st
    ELSE RunChunks(layout,
                   RunMarkers(layout, st, chunks[c], findMarkersCli(chunks[c]), 1, playerIndex),
                   chunks, c + 1, playerIndex)

\* extract40088064(chunks, buildFrameTypeHex('40088064', playerIndex)),
\* extractBase09Position(chunks, playerIndex), extractBase09_b3variant(chunks, playerIndex)
Extract(layout, chunks, playerIndex) ==
    RunChunks(layout, ExtractorStart, chunks, 1, playerIndex).positions

\* '40090005'
Base40090005 == <<64, 9, 0, 5>>

\* the markers of a chunk that detectBase09Variant samples for a player
SampledMarkers(chunk, playerIndex) ==
    SelectSeq(findMarkersCli(chunk),
              LAMBDA pos : /\ ~(pos + 16 >= Len(chunk))
                           /\ IsBase09PositionFrame(chunk, pos, playerIndex))

\* what the loops of detectBase09Variant push for the sampled frames, in order
DetectSamples(chunks, playerIndex) ==
    Concat([c \in 1..Len(chunks) |->
        LET chunk == chunks[c]
            ms == SampledMarkers(chunk, playerIndex)
        IN  [k \in 1..Len(ms) |->
                [b0 |-> At(chunk, ms[k] + 10),
                 b3 |-> At(chunk, ms[k] + 13),
                 c1 |-> At(chunk, ms[k] + 10) * 256 + At(chunk, ms[k] + 11),
                 exact |-> TypeBytesHex(chunk, ms[k]) = buildFrameTypeHex(Base40090005, playerIndex),
                 b5 |-> At(chunk, ms[k] + 15),
                 c2_9bit |-> (At(chunk, ms[k] + 15) % 2) * 256 + At(chunk, ms[k] + 16)]]])

\* count / total * 100 >= pct and < pct, on the exact quotient
PctAtLeast(count, total, pct) == count * 100 >= pct * total

\* the number of matches compared with the percentage
PctBelowAsCount(count, total, pct) == count < pct

PctBelow(count, total, pct) == count * 100 < pct * total

SeqMin(s) == CHOOSE x \in {s[k] : k \in DOMAIN s} : \A y \in {s[k] : k \in DOMAIN s} : x <= y
SeqMax(s) == CHOOSE x \in {s[k] : k \in DOMAIN s} : \A y \in {s[k] : k \in DOMAIN s} : x >= y

\* if (frameCount < 20) return { variant: 'invalid', ... }
TooFewSamples(frameCount) == frameCount < 20

\* detectBase09Variant; b5PatternPct is kept as the pair <<matching, total>>
detectBase09Variant(chunks, playerIndex) ==
    LET all == DetectSamples(chunks, playerIndex)
        frameCount == Len(all)
        exact == SelectSeq(all, LAMBDA r : r.exact)
        b0Matches == Len(SelectSeq(all, LAMBDA r : Shr(r.b0, 4) = 0 \/ Shr(r.b0, 4) = 4))
        uniqueB3 == Cardinality({all[k].b3 : k \in DOMAIN all})
        c1s == [k \in DOMAIN all |-> all[k].c1]
        c1Range == SeqMax(c1s) - SeqMin(c1s)
        b5 == IF Len(exact) >= 10
              THEN <<Len(SelectSeq(exact, LAMBDA r : Shr(r.b5, 1) % 16 = 0)), Len(exact)>>
              ELSE IF c1Range > 512 THEN <<1, 1>> ELSE <<0, 1>>
        uniqueC2_9bit == IF Len(exact) >= 10
                         THEN Cardinality({exact[k].c2_9bit : k \in DOMAIN exact})
                         ELSE IF c1Range > 512 THEN 100 ELSE 0
        b0Ok == PctAtLeast(b0Matches, frameCount, 95)
        info(v) == [variant |-> v, frameCount |-> frameCount, b5PatternPct |-> b5,
                    uniqueB3 |-> uniqueB3, uniqueC2_9bit |-> uniqueC2_9bit]
    IN  IF TooFewSamples(frameCount)
        THEN [variant |-> "invalid", frameCount |-> frameCount, b5PatternPct |-> <<0, 1>>,
              uniqueB3 |-> 0, uniqueC2_9bit |-> 0]
        ELSE IF b0Ok /\ PctAtLeast(b5[1], b5[2], 95) /\ uniqueC2_9bit >= 20 THEN info("9bit")
        ELSE IF b0Ok /\ PctBelow(b5[1], b5[2], 50) /\ uniqueB3 >= 20 THEN info("b3variant")
        ELSE IF uniqueB3 >= 20 THEN info("standard")
        ELSE info("invalid")

\* countBase09PositionFrames
countBase09PositionFrames(chunks, playerIndex) ==
    SumLen([c \in 1..Len(chunks) |->
        SelectSeq(findMarkersCli(chunks[c]),
                  LAMBDA pos : /\ ~(pos + 13 >= Len(chunks[c]))
                               /\ IsBase09PositionFrame(chunks[c], pos, playerIndex))])

\* the last resort taking the base-0x09 extraction on a tie as well
LastResortTieToBase09(base09Count, len88064) ==
    IF base09Count >= len88064 THEN "base09" ELSE "40088064"

\* Last resort: whichever has more frames
LastResort(base09Count, len88064) ==
    IF base09Count > len88064 THEN "base09" ELSE "40088064"

\* the layout extractRawPositions returns the extraction of
ChosenLayout(variant, base09Count, len88064) ==
    IF variant = "9bit" \/ variant = "standard" THEN "base09"
    ELSE IF variant = "b3variant" /\ base09Count >= len88064 THEN "b3variant"
    ELSE IF len88064 >= 20 THEN "40088064"
    ELSE LastResort(base09Count, len88064)

\* extractRawPositions(chunks, playerIndex): the detection it logs and what it returns
extractRawPositions(chunks, playerIndex) ==
    LET pos40088064 == Extract("40088064", chunks, playerIndex)
        base09Count == countBase09PositionFrames(chunks, playerIndex)
        det == detectBase09Variant(chunks, playerIndex)
        layout == ChosenLayout(det.variant, base09Count, Len(pos40088064))
    IN  [detection |-> det,
         positions |-> IF layout = "40088064" THEN pos40088064
                       ELSE Extract(layout, chunks, playerIndex)]

----------------------------------------------------------------------------
(* bond-parser.ts: the Reader *)

\* TypeName[type] || `type_${type}` for the 5-bit type tags 0..31
TypeNames ==
    <<"stop", "stop_base", "bool", "uint8", "uint16", "uint32", "uint64", "float",
      "double", "string", "struct", "list", "set", "map", "int8", "int16", "int32",
      "int64", "wstring", "type_19", "type_20", "type_21", "type_22", "type_23",
      "type_24", "type_25", "type_26", "type_27", "type_28", "type_29", "type_30",
      "type_31">>

TypeName(type) == TypeNames[type + 1]

\* get eof
Eof(buf, pos) == pos >= Len(buf)

\* remaining()
Remaining(buf, pos) == Len(buf) - pos

\* this.buf[this.pos]: a byte, or undefined past the end
ByteAt(buf, pos) == IF pos < Len(buf) THEN At(buf, pos) ELSE Undefined

\* x & 0x1f and x >> 5 of a byte or of undefined (which both give 0)
TagType(b) == IF b = Undefined THEN 0 ELSE b % 32
TagHigh(b) == IF b = Undefined THEN 0 ELSE Shr(b, 5)

\* bytes(n): buf.subarray(pos, pos + n), clamped to the buffer
BytesAt(buf, pos, n) ==
    IF pos >= Len(buf) \/ n <= 0 THEN <<>>
    ELSE SubSeq(buf, pos + 1, IF pos + n < Len(buf) THEN pos + n ELSE Len(buf))

\* the loop of leb128u: 7 bits a byte, low group first, until a byte without
\* the top bit or the end of the buffer
RECURSIVE leb128uFrom(_, _, _, _)
leb128uFrom(buf, pos, result, weight) ==
    IF Eof(buf, pos) THEN [val |-> result, pos |-> pos]
    ELSE LET byte == At(buf, pos)
         IN  IF byte < 128
             THEN [val |-> result + byte * weight, pos |-> pos + 1]
             ELSE leb128uFrom(buf, pos + 1, result + (byte % 128) * weight, weight * 128)

leb128u(buf, pos) == leb128uFrom(buf, pos, 0, 1)

\* (u >> 1) ^ -(u & 1)
ZigZag(u) == IF u % 2 = 0 THEN u \div 2 ELSE -(u \div 2) - 1

leb128(buf, pos) ==
    LET u == leb128u(buf, pos) IN [val |-> ZigZag(u.val), pos |-> u.pos]

\* a range check that takes the last byte of the buffer for out of range
ReadInRangeExclusive(buf, pos, n) == pos + n < Len(buf)

\* the Buffer.read* calls throw a RangeError unless all n bytes are in the buffer
ReadInRange(buf, pos, n) == pos + n <= Len(buf)

\* readInt8 of a byte
ToInt8(b) == IF b >= 128 THEN b - 256 ELSE b

\* toString('utf8') of bytes: an ASCII byte is its character; a byte from 0x80
\* on that starts no valid sequence becomes U+FFFD
Utf8ToString(bytes) == [k \in 1..Len(bytes) |-> IF bytes[k] < 128 THEN bytes[k] ELSE 65533]

\* toString('utf16le') of bytes: one code unit for every whole pair of bytes
Utf16leToString(bytes) ==
    [k \in 1..(Len(bytes) \div 2) |-> bytes[2 * k - 1] + 256 * bytes[2 * k]]

\* toString('base64'): the sextets of every group of three bytes, 64 for '='
Base64(bytes) ==
    LET n == Len(bytes)
        b(i) == IF i <= n THEN bytes[i] ELSE 0
        sextet(g, j) ==
            LET b1 == b(3 * g + 1)
                b2 == b(3 * g + 2)
                b3 == b(3 * g + 3)
            IN  CASE j = 1 -> Shr(b1, 2)
                  [] j = 2 -> (b1 % 4) * 16 + Shr(b2, 4)
                  [] j = 3 -> IF 3 * g + 2 <= n THEN (b2 % 16) * 4 + Shr(b3, 6) ELSE 64
                  [] j = 4 -> IF 3 * g + 3 <= n THEN b3 % 64 ELSE 64
    IN  [k \in 1..(4 * ((n + 2) \div 3)) |-> sextet((k - 1) \div 4, ((k - 1) % 4) + 1)]

\* the test without the NUL byte
IsTextByteNoNul(b) == (b >= 32 /\ b < 127) \/ b = 10 \/ b = 13 \/ b = 9

\* the bytes a byte list is taken as text for
IsTextByte(b) == (b >= 32 /\ b < 127) \/ b = 10 \/ b = 13 \/ b = 9 \/ b = 0

----------------------------------------------------------------------------
(* bond-parser.ts: BondUnpacker *)

\* the outcome of a read: the reader position and this.blobs after it and the
\* value, or ok = FALSE when a RangeError was thrown
Got(pos, blobs, val) == [ok |-> TRUE, pos |-> pos, blobs |-> blobs, val |-> val]
Thrown(pos, blobs) == [ok |-> FALSE, pos |-> pos, blobs |-> blobs, val |-> [k |-> "thrown"]]

\* const fields = {}
EmptyFields == <<>>

\* { fields } with _hasBaseClass when a stop_base tag was read
StructValue(fields, hasBaseClass) ==
    [k |-> "struct", fields |-> fields, hasBaseClass |-> hasBaseClass]

\* the placeholder without the tag number
UnknownValueNoTag(type) == [k |-> "unknown", unknownType |-> 0]

\* { _unknownType: type }
UnknownValue(type) == [k |-> "unknown", unknownType |-> type]

\* the text branch keeping the NUL bytes
TextOfKeepNul(bytes) == Utf8ToString(bytes)

\* bytes.toString('utf8').replace(/\0/g, '')
TextOf(bytes) == SelectSeq(Utf8ToString(bytes), LAMBDA ch : ch # 0)

RECURSIVE readValue(_, _, _, _)
RECURSIVE readStructFrom(_, _, _, _, _, _, _)
RECURSIVE readItemsFrom(_, _, _, _, _, _)
RECURSIVE readEntriesFrom(_, _, _, _, _, _, _)

\* the reader left where the nested struct stopped
setPosNot(pos, endPos) == pos

\* this.reader.setPos(endPos) after the reader stopped at pos
setPos(pos, endPos) == endPos

\* the two id bytes read high byte first
fieldIdBigEndian(buf, pos, high) ==
    IF high = 6 THEN ByteAt(buf, pos + 1)
    ELSE IF high = 7 THEN At(buf, pos + 2) + 256 * At(buf, pos + 1)
    ELSE high

\* let fieldId = b >> 5; if (fieldId === 6) fieldId = u8();
\* else if (fieldId === 7) fieldId = u16()
fieldId(buf, pos, high) ==
    IF high = 6 THEN ByteAt(buf, pos + 1)
    ELSE IF high = 7 THEN At(buf, pos + 1) + 256 * At(buf, pos + 2)
    ELSE high

\* the while loop of readStruct, from the reader position pos
readStructFrom(buf, pos, blobs, startPos, maxLen, fields, hasBaseClass) ==
    IF Eof(buf, pos) \/ ~((pos - startPos) < maxLen)
    THEN Got(pos, blobs, StructValue(fields, hasBaseClass))
    ELSE LET b == At(buf, pos)
             type == b % 32
             high == Shr(b, 5)
         IN  IF type = 0 THEN Got(pos + 1, blobs, StructValue(fields, hasBaseClass))
             ELSE IF type = 1
             THEN readStructFrom(buf, pos + 1, blobs, startPos, maxLen, fields, TRUE)
             ELSE IF high = 7 /\ ~ReadInRange(buf, pos + 1, 2) THEN Thrown(pos + 1, blobs)
             ELSE LET id == fieldId(buf, pos, high)
                      after == pos + 1 + (IF high = 6 THEN 1 ELSE IF high = 7 THEN 2 ELSE 0)
                      r == readValue(buf, after, blobs, type)
                  IN  IF ~r.ok THEN r
                      ELSE readStructFrom(buf, r.pos, r.blobs, startPos, maxLen,
                              (id :> [type |-> TypeName(type), value |-> r.val]) @@ fields,
                              hasBaseClass)

\* the for loop of readList over the items still to read
readItemsFrom(buf, pos, blobs, elemType, left, items) ==
    IF left <= 0 THEN Got(pos, blobs, items)
    ELSE LET r == readValue(buf, pos, blobs, elemType)
         IN  IF ~r.ok THEN r
             ELSE readItemsFrom(buf, r.pos, r.blobs, elemType, left - 1, Append(items, r.val))

\* the for loop of readMap over the entries still to read
readEntriesFrom(buf, pos, blobs, keyType, valType, left, entries) ==
    IF left <= 0 THEN Got(pos, blobs, entries)
    ELSE LET rk == readValue(buf, pos, blobs, keyType)
             rv == readValue(buf, rk.pos, rk.blobs, valType)
         IN  IF ~rk.ok THEN rk
             ELSE IF ~rv.ok THEN rv
             ELSE readEntriesFrom(buf, rv.pos, rv.blobs, keyType, valType, left - 1,
                                  Append(entries, [key |-> rk.val, value |-> rv.val]))

\* readList(isSet)
readList(buf, pos, blobs, isSet) ==
    LET tc == ByteAt(buf, pos)
        elemType == TagType(tc)
        short == TagHigh(tc)
        long == leb128u(buf, pos + 1)
        count == IF short = 0 THEN long.val ELSE short - 1
        after == IF short = 0 THEN long.pos ELSE pos + 1
        kind == IF isSet THEN "set" ELSE "list"
        bytes == BytesAt(buf, after, count)
        isText == count > 0 /\ count < 1000 /\ \A i \in 1..Len(bytes) : IsTextByte(bytes[i])
        r == readItemsFrom(buf, after, blobs, elemType, count, <<>>)
    IN  IF elemType = 3 \/ elemType = 14
        THEN IF isText
             THEN Got(after + count, blobs,
                      [k |-> "text", type |-> kind, elemType |-> TypeName(elemType),
                       count |-> count, data |-> TextOf(bytes)])
             ELSE Got(after + count,
                      Append(blobs, [index |-> Len(blobs), length |-> count,
                                     data |-> Base64(bytes)]),
                      [k |-> "blobRef", type |-> kind, elemType |-> TypeName(elemType),
                       count |-> count, blobRef |-> Len(blobs)])
        ELSE IF ~r.ok THEN r
        ELSE Got(r.pos, r.blobs,
                 [k |-> "items", type |-> kind, elemType |-> TypeName(elemType),
                  count |-> count, items |-> r.val])

\* readMap()
readMap(buf, pos, blobs) ==
    LET keyType == TagType(ByteAt(buf, pos))
        valType == TagType(ByteAt(buf, pos + 1))
        count == leb128u(buf, pos + 2)
        r == readEntriesFrom(buf, count.pos, blobs, keyType, valType, count.val, <<>>)
    IN  IF ~r.ok THEN r
        ELSE Got(r.pos, r.blobs,
                 [k |-> "map", keyType |-> TypeName(keyType), valType |-> TypeName(valType),
                  count |-> count.val, entries |-> r.val])

\* readValue(type)
readValue(buf, pos, blobs, type) ==
    CASE type = 2 -> Got(pos + 1, blobs, [k |-> "bool", bool |-> ByteAt(buf, pos) # 0])
      [] type = 3 ->
            Got(pos + 1, blobs,
                IF Eof(buf, pos) THEN [k |-> "undefined"]
                ELSE [k |-> "number", num |-> At(buf, pos)])
      [] type = 14 ->
            IF ~ReadInRange(buf, pos, 1) THEN Thrown(pos, blobs)
            ELSE Got(pos + 1, blobs, [k |-> "number", num |-> ToInt8(At(buf, pos))])
      [] type \in {4, 5, 6} ->
            LET u == leb128u(buf, pos)
            IN  Got(u.pos, blobs, [k |-> "number", num |-> u.val])
      [] type \in {15, 16, 17} ->
            LET s == leb128(buf, pos)
            IN  Got(s.pos, blobs, [k |-> "number", num |-> s.val])
      [] type = 7 ->
            IF ~ReadInRange(buf, pos, 4) THEN Thrown(pos, blobs)
            ELSE Got(pos + 4, blobs, [k |-> "float", bits |-> BytesAt(buf, pos, 4)])
      [] type = 8 ->
            IF ~ReadInRange(buf, pos, 8) THEN Thrown(pos, blobs)
            ELSE Got(pos + 8, blobs, [k |-> "double", bits |-> BytesAt(buf, pos, 8)])
      [] type = 9 ->
            LET len == leb128u(buf, pos)
            IN  IF len.val = 0 THEN Got(len.pos, blobs, [k |-> "string", str |-> <<>>])
                ELSE Got(len.pos + len.val, blobs,
                         [k |-> "string",
                          str |-> Utf8ToString(BytesAt(buf, len.pos, len.val))])
      [] type = 18 ->
            LET len == leb128u(buf, pos)
            IN  IF len.val = 0 THEN Got(len.pos, blobs, [k |-> "string", str |-> <<>>])
                ELSE Got(len.pos + len.val * 2, blobs,
                         [k |-> "string",
                          str |-> Utf16leToString(BytesAt(buf, len.pos, len.val * 2))])
      [] type = 10 ->
            LET len == leb128u(buf, pos)
                endPos == len.pos + len.val
                r == readStructFrom(buf, len.pos, blobs, len.pos, len.val, EmptyFields, FALSE)
            IN  IF ~r.ok THEN r ELSE Got(setPos(r.pos, endPos), r.blobs, r.val)
      [] type \in {11, 12} -> readList(buf, pos, blobs, type = 12)
      [] type = 13 -> readMap(buf, pos, blobs)
      [] OTHER -> Got(pos, blobs, UnknownValue(type))

\* zlib: a failed inflate throws
InflateFailed == [ok |-> FALSE, out |-> <<>>, end |-> 0]

\* zlib inflate of a deflate stream of stored blocks (BTYPE 00) starting at pos:
\* header byte, LEN, NLEN = ~LEN, LEN literal bytes, up to the block marked
\* final.  BTYPE 11 is invalid; streams with Huffman blocks (BTYPE 01, 10) are
\* not among the inputs.
RECURSIVE InflateStoredFrom(_, _, _)
InflateStoredFrom(data, pos, out) ==
    IF pos + 5 > Len(data) THEN InflateFailed
    ELSE LET hdr == At(data, pos)
             len == At(data, pos + 1) + 256 * At(data, pos + 2)
             nlen == At(data, pos + 3) + 256 * At(data, pos + 4)
             all == out \o BytesAt(data, pos + 5, len)
         IN  IF Shr(hdr, 1) % 4 # 0 THEN InflateFailed
             ELSE IF len + nlen # 65535 THEN InflateFailed
             ELSE IF pos + 5 + len > Len(data) THEN InflateFailed
             ELSE IF hdr % 2 = 1 THEN [ok |-> TRUE, out |-> all, end |-> pos + 5 + len]
             ELSE InflateStoredFrom(data, pos + 5 + len, all)

\* inflateRawSync(compressedData)
InflateRaw(data) == InflateStoredFrom(data, 0, <<>>)

\* the two 16-bit halves of the Adler-32 checksum
AdlerA(bytes) == (1 + SumSeq(bytes)) % 65521
AdlerB(bytes) ==
    (Len(bytes) + SumSeq([i \in 1..Len(bytes) |-> (Len(bytes) - i + 1) * bytes[i]])) % 65521

\* inflateSync(compressedData): the zlib header CMF FLG, the deflate stream and
\* the big-endian Adler-32 of the output
InflateZlib(data) ==
    IF Len(data) < 2 THEN InflateFailed
    ELSE LET cmf == At(data, 0)
             flg == At(data, 1)
             body == InflateStoredFrom(data, 2, <<>>)
         IN  IF cmf % 16 # 8 \/ Shr(cmf, 4) > 7 \/ (cmf * 256 + flg) % 31 # 0
                \/ Shr(flg, 5) % 2 = 1
             THEN InflateFailed
             ELSE IF ~body.ok THEN InflateFailed
             ELSE IF body.end + 4 > Len(data) THEN InflateFailed
             ELSE IF BytesAt(data, body.end, 4) #
                        <<Shr(AdlerB(body.out), 8), AdlerB(body.out) % 256,
                          Shr(AdlerA(body.out), 8), AdlerA(body.out) % 256>>
             THEN InflateFailed
             ELSE body

\* no _compressedData (readCompressedBlob returned null, or was not called)
NoCompressedData == [k |-> "none"]

\* the padding check of unpack: the first min(remaining, 100) bytes are all zero
AllZeros(buf, pos) ==
    \A i \in 0..((IF Remaining(buf, pos) < 100 THEN Remaining(buf, pos) ELSE 100) - 1) :
        At(buf, pos + i) = 0

\* the test of unpack with bytesRead <= outerLen
BlobExpectedInclusive(buf, pos, bytesRead, outerLen) ==
    bytesRead <= outerLen /\ Remaining(buf, pos) > 0 /\ ~AllZeros(buf, pos)

\* if (bytesRead < outerLen && this.reader.remaining() > 0) and not all zeros
BlobExpected(buf, pos, bytesRead, outerLen) ==
    bytesRead < outerLen /\ Remaining(buf, pos) > 0 /\ ~AllZeros(buf, pos)

\* readInt32BE of four bytes that are in range
Int32BE(buf, pos) ==
    IF At(buf, pos) >= 128
    THEN (At(buf, pos) - 256) * 16777216 + At(buf, pos + 1) * 65536
            + At(buf, pos + 2) * 256 + At(buf, pos + 3)
    ELSE At(buf, pos) * 16777216 + At(buf, pos + 1) * 65536
            + At(buf, pos + 2) * 256 + At(buf, pos + 3)

RECURSIVE unpack(_)
RECURSIVE readCompressedBlob(_, _)

\* a constructor that takes over the blobs the unpacker of the call before
\* was left with
ConstructorBlobsShared ==
    IF repeatCalls.bond > 0 /\ ~repeatLast.bond.thrown THEN repeatLast.bond.blobs ELSE <<>>

\* constructor(buffer): this.blobs = []
ConstructorBlobs == <<>>

\* readCompressedBlob(): the result, or NoCompressedData for null
readCompressedBlob(buf, pos) ==
    IF ~ReadInRange(buf, pos, 4) THEN NoCompressedData
    ELSE LET size == Int32BE(buf, pos)
             compressedData == BytesAt(buf, pos + 4, size)
             raw == InflateRaw(compressedData)
             zlib == InflateZlib(compressedData)
         IN  IF size <= 0 \/ size > Remaining(buf, pos + 4) THEN NoCompressedData
             ELSE IF raw.ok /\ ~unpack(raw.out).thrown
             THEN [k |-> "compressed", compression |-> "deflate", compressedSize |-> size,
                   decompressedSize |-> Len(raw.out), data |-> unpack(raw.out)]
             ELSE IF zlib.ok /\ ~unpack(zlib.out).thrown
             THEN [k |-> "compressed", compression |-> "zlib", compressedSize |-> size,
                   decompressedSize |-> Len(zlib.out), data |-> unpack(zlib.out)]
             ELSE NoCompressedData

\* the document a call that threw did not return
ThrownDocument == [thrown |-> TRUE]

\* new BondUnpacker(buffer).unpack(): the reader starts at 0 and blobs at []
unpack(buf) ==
    LET outer == leb128u(buf, 0)
        contentStart == outer.pos
        main == readStructFrom(buf, contentStart, ConstructorBlobs, contentStart, outer.val,
                               EmptyFields, FALSE)
        bytesRead == main.pos - contentStart
    IN  IF ~main.ok THEN ThrownDocument
        ELSE [thrown |-> FALSE,
              fileSize |-> Remaining(buf, main.pos) + main.pos,
              outerLength |-> outer.val,
              content |-> main.val,
              blobs |-> main.blobs,
              compressedData |->
                  IF BlobExpected(buf, main.pos, bytesRead, outer.val)
                  THEN readCompressedBlob(buf, main.pos)
                  ELSE NoCompressedData]

\* parseBond(buffer)
parseBond(buffer) == unpack(buffer)

----------------------------------------------------------------------------
(* aim main.ts: scaling a path into the map.  World coordinates and scales
   are quotients of integers, compared by cross-multiplication. *)

\* DEFAULT_SCALE = 0.003
DefaultScale == Frac(3, 1000)

\* ENCODING_RATIO = 65536 / 4096
ENCODING_RATIO == 16

Infinity == Frac(1, 0)
isFinite(f) == f.den # 0

FracLess(a, b) == a.num * b.den < b.num * a.den
FracEq(a, b) == a.num * b.den = b.num * a.den
\* Math.min(a, b)
FracMin(a, b) == IF FracLess(b, a) THEN b ELSE a
\* whole + a
FracPlus(whole, a) == Frac(whole * a.den + a.num, a.den)

\* w * 0.2 of computeMapBounds; the generated positions are multiples of 5
Fifth(w) == w \div 5

NoBounds ==
    [isNull |-> TRUE, minX |-> 0, maxX |-> 0, minY |-> 0, maxY |-> 0, width |-> 0, height |-> 0]

\* computeMapBounds(objects): the extent of the objects with a buffer of 20 %
computeMapBounds(objects) ==
    IF Len(objects) = 0 THEN NoBounds
    ELSE LET minX == SeqMin([i \in 1..Len(objects) |-> objects[i].x])
             maxX == SeqMax([i \in 1..Len(objects) |-> objects[i].x])
             minY == SeqMin([i \in 1..Len(objects) |-> objects[i].y])
             maxY == SeqMax([i \in 1..Len(objects) |-> objects[i].y])
             bufX == Fifth(maxX - minX)
             bufY == Fifth(maxY - minY)
         IN  [isNull |-> FALSE,
              minX |-> minX - bufX, maxX |-> maxX + bufX,
              minY |-> minY - bufY, maxY |-> maxY + bufY,
              width |-> (maxX + bufX) - (minX - bufX),
              height |-> (maxY + bufY) - (minY - bufY)]

\* the loop of scalePositions over the position frames: the cumulative
\* coordinates, (0, 0) for the first frame
RECURSIVE CumulativeFrom(_, _, _)
CumulativeFrom(posFrames, k, points) ==
    IF k > Len(posFrames) THEN points
    ELSE IF k = 1 THEN CumulativeFrom(posFrames, 2, <<[cumC1 |-> 0, cumC2 |-> 0]>>)
    ELSE CumulativeFrom(posFrames, k + 1,
            Append(points,
                [cumC1 |-> points[k - 1].cumC1
                              + Wrap16(posFrames[k].coord1 - posFrames[k - 1].coord1),
                 cumC2 |-> points[k - 1].cumC2
                              + Wrap12(posFrames[k].coord2 - posFrames[k - 1].coord2)]))

\* the world position of a point under an offset and a scale
WorldX(offsetX, scaleX, point) == FracPlus(offsetX, Frac(-point.cumC2 * scaleX.num, scaleX.den))
WorldY(offsetY, scaleY, point) == FracPlus(offsetY, Frac(point.cumC1 * scaleY.num, scaleY.den))

\* the test of findBestSpawnAnchor: the position lies within the map bounds
InsideBounds(mapBounds, x, y) ==
    /\ x.num >= mapBounds.minX * x.den /\ x.num <= mapBounds.maxX * x.den
    /\ y.num >= mapBounds.minY * y.den /\ y.num <= mapBounds.maxY * y.den

\* the scale that fills MAP_FILL_FACTOR = 0.85 of the map height
FillScaleY(mapBounds, rawExtentY) == Frac(17 * mapBounds.height, 20 * rawExtentY)
\* scaleX = scaleY / (ENCODING_RATIO * width / height)
ScaleXOf(scaleY, mapBounds) ==
    Frac(scaleY.num * mapBounds.height, scaleY.den * ENCODING_RATIO * mapBounds.width)

NoAnchor == [isNull |-> TRUE, x |-> 0, y |-> 0]

\* the loop of findBestSpawnAnchor over the candidates from number k on
RECURSIVE BestFrom(_, _, _, _)
BestFrom(scores, k, best, bestScore) ==
    IF k > Len(scores) THEN best
    ELSE IF scores[k] > bestScore THEN BestFrom(scores, k + 1, k, scores[k])
    ELSE BestFrom(scores, k + 1, best, bestScore)

\* findBestSpawnAnchor(points, mapBounds, candidates): the first candidate
\* with the most points inside the bounds at the fill scale
findBestSpawnAnchor(points, mapBounds, candidates) ==
    IF Len(points) = 0 \/ Len(candidates) = 0 THEN NoAnchor
    ELSE LET rawExtentY == SeqMax([i \in 1..Len(points) |-> points[i].cumC1])
                             - SeqMin([i \in 1..Len(points) |-> points[i].cumC1])
             scaled == mapBounds.width > 0 /\ rawExtentY > 0
             scaleY == IF scaled THEN FillScaleY(mapBounds, rawExtentY) ELSE DefaultScale
             scaleX == IF scaled THEN ScaleXOf(scaleY, mapBounds) ELSE DefaultScale
             inside(c) ==
                 Cardinality({i \in 1..Len(points) :
                     InsideBounds(mapBounds, WorldX(candidates[c].x, scaleX, points[i]),
                                             WorldY(candidates[c].y, scaleY, points[i]))})
             best == BestFrom([c \in 1..Len(candidates) |-> inside(c)], 1, 0, -1)
         IN  [isNull |-> FALSE, x |-> candidates[best].x, y |-> candidates[best].y]

\* maxRawY > rawExtentY * 0.05: the direction counts for the scale
ExceedsThreshold(excursion, extent) == 20 * excursion > extent

\* Math.min(scaleY, space / excursion) under its if
Constrain(scaleY, excursion, extent, space) ==
    IF ExceedsThreshold(excursion, extent) THEN FracMin(scaleY, Frac(space.num, space.den * excursion))
    ELSE scaleY

\* scalePositions(posFrames, mapBounds, objects): the locals at the return and
\* the world positions
scalePositionsLocals(posFrames, mapBounds, objects) ==
    LET points == CumulativeFrom(posFrames, 1, <<>>)
        maxRawX == SeqMax([i \in 1..Len(points) |-> points[i].cumC2])
        minRawX == SeqMin([i \in 1..Len(points) |-> points[i].cumC2])
        maxRawY == SeqMax([i \in 1..Len(points) |-> points[i].cumC1])
        minRawY == SeqMin([i \in 1..Len(points) |-> points[i].cumC1])
        rawExtentY == maxRawY - minRawY
        rawExtentX == maxRawX - minRawX
        spawns == SelectSeq(objects, LAMBDA o : o.spawn)
        spawnAnchor == IF mapBounds.isNull THEN NoAnchor
                       ELSE findBestSpawnAnchor(points, mapBounds, spawns)
        anchored == ~mapBounds.isNull /\ mapBounds.width > 0 /\ ~spawnAnchor.isNull
                        /\ rawExtentY > 0
        filled == ~anchored /\ ~mapBounds.isNull /\ mapBounds.width > 0 /\ rawExtentY > 0
        aspectNum == ENCODING_RATIO * mapBounds.width
        s1 == Constrain(Infinity, maxRawY, rawExtentY, Frac(mapBounds.maxY - spawnAnchor.y, 1))
        s2 == Constrain(s1, -minRawY, rawExtentY, Frac(spawnAnchor.y - mapBounds.minY, 1))
        s3 == Constrain(s2, maxRawX, rawExtentX,
                        Frac((spawnAnchor.x - mapBounds.minX) * aspectNum, mapBounds.height))
        s4 == Constrain(s3, -minRawX, rawExtentX,
                        Frac((mapBounds.maxX - spawnAnchor.x) * aspectNum, mapBounds.height))
        scaleY == IF anchored THEN (IF isFinite(s4) THEN s4 ELSE DefaultScale)
                  ELSE IF filled THEN FillScaleY(mapBounds, rawExtentY)
                  ELSE DefaultScale
        scaleX == IF anchored \/ filled THEN ScaleXOf(scaleY, mapBounds) ELSE DefaultScale
        n == Len(points)
        sumC1 == SumSeq([i \in 1..n |-> points[i].cumC1])
        sumC2 == SumSeq([i \in 1..n |-> points[i].cumC2])
        \* centerX - pathCX and centerY - pathCY, added to a displacement
        centredX(p) ==
            Frac((mapBounds.minX + mapBounds.maxX) * n * scaleX.den
                    + 2 * (sumC2 - n * p.cumC2) * scaleX.num,
                 2 * n * scaleX.den)
        centredY(p) ==
            Frac((mapBounds.minY + mapBounds.maxY) * n * scaleY.den
                    + 2 * (n * p.cumC1 - sumC1) * scaleY.num,
                 2 * n * scaleY.den)
    IN  [mode |-> IF anchored THEN "anchored" ELSE IF filled THEN "filled" ELSE "default",
         points |-> points,
         spawnAnchor |-> spawnAnchor,
         scaleX |-> scaleX,
         scaleY |-> scaleY,
         world |->
            [i \in 1..n |->
                IF ~spawnAnchor.isNull
                THEN [x |-> WorldX(spawnAnchor.x, scaleX, points[i]),
                      y |-> WorldY(spawnAnchor.y, scaleY, points[i])]
                ELSE IF ~mapBounds.isNull
                THEN [x |-> centredX(points[i]), y |-> centredY(points[i])]
                ELSE [x |-> WorldX(0, scaleX, points[i]), y |-> WorldY(0, scaleY, points[i])]]]

scalePositions(posFrames, mapBounds, objects) ==
    IF Len(posFrames) = 0 THEN <<>>
    ELSE scalePositionsLocals(posFrames, mapBounds, objects).world

----------------------------------------------------------------------------
(* Input films for the viewer: chunks put together from a few segments *)

Marker == <<160, 123, 66>>

\* a position frame of player 0: type 40 09 00 05, d0 = 0x41
SegPos == Marker \o <<0, 1, 64, 9, 0, 5, 0>> \o <<65, 5, 3, 40, 0, 0, 0, 0, 0, 0>>
\* a state frame of player 1: type 40 28 80 64, d0 = 0x12
SegState == Marker \o <<1, 0, 64, 40, 128, 100, 7>> \o <<18, 0, 0, 0, 0, 0, 0, 0, 0, 0>>
\* a frame of another kind: byte5 = 0x10, byte6 = 0xe9, d0 = 0x4f
SegOther == Marker \o <<2, 2, 16, 233, 0, 77, 1>> \o <<79, 255, 255, 255, 0, 0, 0, 0, 0, 0>>
\* a frame with tick 0xffff whose data bytes d2..d4 are the marker bytes
SegEmbedded == Marker \o <<255, 255, 64, 41, 0, 5, 0>> \o <<64, 0, 160, 123, 66, 0, 0, 0, 0, 0>>
\* a marker cut off after 12 more bytes
SegTruncated == Marker \o <<0, 3, 64, 9, 0, 5, 0, 64, 0, 0, 0, 0>>
SegFill == <<0>>

Segments == {SegPos, SegState, SegOther, SegEmbedded, SegTruncated, Marker, SegFill}

SegSeqs == UNION {[1..n -> Segments] : n \in 0..MaxSegs}

\* one chunk (k = 0) or two chunks split after segment k
SplitFilm(ss, k) ==
    IF k = 0 THEN <<Concat(ss)>>
    ELSE <<Concat(SubSeq(ss, 1, k)), Concat(SubSeq(ss, k + 1, Len(ss)))>>

\* a marker at offset 100 followed by 17 bytes, and the same in a 115-byte buffer
ExampleFull == <<Zeros(100) \o SegPos>>
ExampleShort == <<Zeros(100) \o SegTruncated>>

ViewerFilms ==
    UNION {{SplitFilm(ss, k) : k \in 0..(IF Len(ss) = 0 THEN 0 ELSE Len(ss) - 1)} : ss \in SegSeqs}
    \cup {ExampleFull, ExampleShort}

----------------------------------------------------------------------------
(* main.ts: the viewer *)

\* chunkOffsets as loadFilm computes them: the running sum of the chunk lengths
ChunkOffsetsOf(chunks) == [i \in 1..Len(chunks) |-> SumLen(SubSeq(chunks, 1, i - 1))]

\* the films picked together when the film list has two films
LinkedFilms == {<<SegPos>>, <<SegState, SegPos \o SegEmbedded>>, <<SegFill \o SegTruncated>>}

\* the match ids of the film list: 1 for the first film, 2 for the second
MatchIds == {1, 2}
ChunksOf(matchId) == IF matchId = 1 THEN filmChunks ELSE otherChunks

InitViewer ==
    /\ \/ filmChunks \in ViewerFilms /\ otherChunks = NoFilm
       \/ filmChunks \in LinkedFilms /\ otherChunks \in LinkedFilms
    /\ activeMatchId = Null
    /\ allData = NullData
    /\ chunkOffsets = <<>>
    /\ frames = <<>>
    /\ selectedFrameIndex = Null
    /\ fieldMap = <<>>
    /\ hexSelected = Null
    /\ tableSelected = Null
    /\ clickedOffset = Null
    /\ clickResult = Null
    /\ FireIdle
    /\ MotionIdle
    /\ BondIdle
    /\ RepeatIdle
    /\ ScaleIdle

\* loadFilm(film) followed by processData: hexView.setState takes the new
\* frames with selectedFrameIndex null, frameTable.setFrames takes the new
\* frames and leaves its selectedFrameIndex as it is
LoadFilm(matchId) ==
    /\ ChunksOf(matchId) # NoFilm
    /\ activeMatchId # matchId    \* activeMatchId === film.matchId returns early
    /\ activeMatchId' = matchId
    /\ allData' = Concat(ChunksOf(matchId))
    /\ chunkOffsets' = ChunkOffsetsOf(ChunksOf(matchId))
    /\ selectedFrameIndex' = Null
    /\ frames' = parseFrames(Concat(ChunksOf(matchId)), ChunkOffsetsOf(ChunksOf(matchId)))
    /\ fieldMap' = buildFieldMap(Concat(ChunksOf(matchId)), frames')
    /\ hexSelected' = Null
    /\ clickedOffset' = Null
    /\ clickResult' = Null
    /\ UNCHANGED <<filmChunks, otherChunks, tableSelected>>
    /\ UNCHANGED fireVars
    /\ UNCHANGED motionVars
    /\ UNCHANGED bondVars
    /\ UNCHANGED repeatVars
    /\ UNCHANGED scaleVars

\* selectFrame(frameIndex): the index goes to the viewer state, to
\* hexView.updateSelection and to frameTable.updateSelection
selectFrame(frameIndex) ==
    /\ selectedFrameIndex' = frameIndex
    /\ hexSelected' = frameIndex
    /\ tableSelected' = frameIndex

\* onByteClick(offset): frameAtOffset, then selectFrame when a frame was found
ByteClick(offset) ==
    /\ allData # NullData
    /\ LET fi == frameAtOffset(offset, frames)
       IN  /\ clickedOffset' = offset
           /\ clickResult' = fi
           /\ IF fi # Null THEN selectFrame(fi)
              ELSE UNCHANGED <<selectedFrameIndex, hexSelected, tableSelected>>
    /\ UNCHANGED <<filmChunks, otherChunks, activeMatchId, allData, chunkOffsets, frames,
                   fieldMap>>
    /\ UNCHANGED fireVars
    /\ UNCHANGED motionVars
    /\ UNCHANGED bondVars
    /\ UNCHANGED repeatVars
    /\ UNCHANGED scaleVars

\* a click on the row of a frame in the frame table: selectFrame(frameIndex)
RowClick(frameIndex) ==
    /\ allData # NullData
    /\ frameIndex < Len(frames)
    /\ selectFrame(frameIndex)
    /\ UNCHANGED <<filmChunks, otherChunks, activeMatchId, allData, chunkOffsets, frames,
                   fieldMap, clickedOffset, clickResult>>
    /\ UNCHANGED fireVars
    /\ UNCHANGED motionVars
    /\ UNCHANGED bondVars
    /\ UNCHANGED repeatVars
    /\ UNCHANGED scaleVars

NextViewer ==
    \/ \E matchId \in MatchIds : LoadFilm(matchId)
    \/ \E offset \in 0..(IF allData = NullData THEN 0 ELSE Len(allData) - 1) : ByteClick(offset)
    \/ \E frameIndex \in 0..(Len(frames) - 1) : RowClick(frameIndex)

SpecViewer == InitViewer /\ [][NextViewer]_vars

----------------------------------------------------------------------------
(* Input buffers for the fire scanner *)

\* the two hex digits of every byte of a sequence
Nibbles(bytes) == [k \in 1..(2 * Len(bytes)) |-> toHex2(bytes[(k + 1) \div 2])[((k - 1) % 2) + 1]]

\* the bytes that hold a logical byte sequence at a 4-bit shift
ShiftEncode(bytes, padHi, padLo) ==
    LET nibs == <<padHi>> \o Nibbles(bytes) \o <<padLo>>
    IN  [j \in 1..(Len(bytes) + 1) |-> nibs[2 * j - 1] * 16 + nibs[2 * j]]

\* lead 0d b1 00 b3, counter, slot, weapon id, octant, aim uint16
FireRecord(b1, b3, ctr, slot, weapon, octant, aim) ==
    ShiftEncode(<<13, b1, 0, b3, ctr, slot>> \o weapon \o <<octant, aim \div 256, aim % 256>>, 0, 0)

\* 48c19d2d42c9679f (MA40 AR) and 2b1824d542c9679f (BR75): in the table
IdMA40 == <<72, 193, 157, 45, 66, 201, 103, 159>>
IdBR75 == <<43, 24, 36, 213, 66, 201, 103, 159>>
\* 6acdc44d42c9679f: the suffix, but not in the table
IdUnlisted == <<106, 205, 196, 77, 66, 201, 103, 159>>
\* f5c335dfe7232c0b: another suffix
IdOtherSuffix == <<245, 195, 53, 223, 231, 35, 44, 11>>

FireRecordsAll ==
    {FireRecord(b1, b3, ctr, slot, weapon, octant, 65280) :
        b1 \in {38, 39}, b3 \in {64, 67, 68}, ctr \in {0, 6, 252}, slot \in {1, 2, 3},
        weapon \in {IdMA40, IdBR75, IdUnlisted, IdOtherSuffix}, octant \in {0, 7, 13, 255}}

FireRecordsFew ==
    {FireRecord(38, 64, 4, 1, IdMA40, 5, 32896),
     FireRecord(38, 65, 8, 3, IdBR75, 0, 255),
     FireRecord(38, 64, 12, 1, IdUnlisted, 255, 65280),
     FireRecord(38, 64, 16, 3, IdOtherSuffix, 2, 0),
     FireRecord(38, 64, 18, 1, IdMA40, 1, 0)}

\* one record after 0 or 1 bytes, followed by 2 or 3 more bytes
FireInputsSingle ==
    {[data |-> Zeros(pre) \o r \o Zeros(post), offs |-> <<0>>] :
        pre \in {0, 1}, post \in {2, 3}, r \in FireRecordsAll}

\* several records back to back, the second chunk starting after the first record
FireInputsSeveral ==
    UNION {{[data |-> Zeros(pre) \o Concat(rs) \o Zeros(3), offs |-> <<0, pre + 18>>] :
              pre \in {0, 1}, rs \in [1..n -> FireRecordsFew]} : n \in 2..MaxFireRecs}

\* the components u and v of the face codes of the aim records
AimComponents == {0, 1, 127, 128, 254, 255}

\* one record for every octant, for octant bytes with high bits and for
\* every face code with components from AimComponents, followed by 3 bytes
FireInputsAim ==
    {[data |-> FireRecord(38, 64, 4, 1, IdMA40, octant, u * 256 + v) \o Zeros(3),
      offs |-> <<0>>] :
        octant \in 0..7 \cup {8, 250}, u \in AimComponents, v \in AimComponents}

FireInputs == FireInputsSingle \cup FireInputsSeveral \cup FireInputsAim

----------------------------------------------------------------------------
(* One call of scanFireEvents *)

InitFire ==
    /\ \E inp \in FireInputs : fireData = inp.data /\ fireOffsets = inp.offs
    /\ fireScanned = FALSE
    /\ events = <<>>
    /\ weaponCounts = EmptyCounts
    /\ ViewerIdle
    /\ MotionIdle
    /\ BondIdle
    /\ RepeatIdle
    /\ ScaleIdle

ScanFire ==
    /\ ~fireScanned
    /\ LET result == scanFireEvents(fireData, fireOffsets)
       IN  /\ events' = result.events
           /\ weaponCounts' = result.weaponCounts
    /\ fireScanned' = TRUE
    /\ UNCHANGED <<fireData, fireOffsets>>
    /\ UNCHANGED viewerVars
    /\ UNCHANGED motionVars
    /\ UNCHANGED bondVars
    /\ UNCHANGED repeatVars
    /\ UNCHANGED scaleVars

NextFire == ScanFire

SpecFire == InitFire /\ [][NextFire]_vars

----------------------------------------------------------------------------
(* Input films for the position extractors *)

\* a 20-byte frame record with the given type bytes and data bytes d0..d3
Rec(type, d0, d1, d2, d3) ==
    Marker \o <<0, 0>> \o type \o <<0>> \o <<d0, d1, d2, d3, 0, 0, 0, 0, 0, 0>>

Type40088064 == <<64, 8, 128, 100>>
Type40090005 == <<64, 9, 0, 5>>
Type4009004d == <<64, 9, 0, 77>>
Type40290005 == <<64, 41, 0, 5>>

\* frames of type 40088064 with raw (coord1, coord2) = (65530, 10), (5, 10),
\* (20480, 40000), (0, 20000), (50000, 65407)
Recs40088064 ==
    {Rec(Type40088064, 255, 250, 0, 10),
     Rec(Type40088064, 0, 5, 0, 10),
     Rec(Type40088064, 80, 0, 156, 64),
     Rec(Type40088064, 0, 0, 78, 32),
     Rec(Type40088064, 195, 80, 255, 255)}

\* position frames of player 0 with d0..d3 = 40 00 00 0a, 4f ff 0f fa,
\* 40 32 08 00, 41 00 00 00 and, with subtype 004d, 40 28 00 1e
RecsBase09 ==
    {Rec(Type40090005, 64, 0, 0, 10),
     Rec(Type40090005, 79, 255, 15, 250),
     Rec(Type40090005, 64, 50, 8, 0),
     Rec(Type40090005, 65, 0, 0, 0),
     Rec(Type4009004d, 64, 40, 0, 30)}

\* a base-0x09 frame that is no position frame (d0 = 0x00), a position frame of player 1
RecNoPosition == Rec(Type40090005, 0, 7, 0, 7)
RecPlayer1 == Rec(Type40290005, 64, 100, 0, 100)

\* frames cut off after data byte d2: the next byte read as d3 belongs to what follows
RecCut40088064 == Marker \o <<0, 0>> \o Type40088064 \o <<0>> \o <<128, 0, 64>>
RecCutBase09 == Marker \o <<0, 0>> \o Type40090005 \o <<0>> \o <<64, 16, 0>>

MotionRecs(layout) ==
    IF layout = "40088064"
    THEN Recs40088064 \cup {RecCut40088064, RecPlayer1}
    ELSE RecsBase09 \cup {RecNoPosition, RecPlayer1, RecCutBase09}

MotionFilms(layout) ==
    UNION {{SplitFilm(ss, k) : k \in 0..(IF Len(ss) = 0 THEN 0 ELSE Len(ss) - 1)} :
              ss \in UNION {[1..n -> MotionRecs(layout)] : n \in 0..MaxMotionRecs}}

MotionPlayers == {0, 1}

----------------------------------------------------------------------------
(* One call of a position extractor *)

InitMotion ==
    /\ motionLayout \in Layouts
    /\ motionPlayer \in MotionPlayers
    /\ motionChunks \in MotionFilms(motionLayout)
    /\ motionDone = FALSE
    /\ positions = <<>>
    /\ detection = NoDetection
    /\ ViewerIdle
    /\ FireIdle
    /\ BondIdle
    /\ RepeatIdle
    /\ ScaleIdle

ExtractPositions ==
    /\ ~motionDone
    /\ positions' = Extract(motionLayout, motionChunks, motionPlayer)
    /\ motionDone' = TRUE
    /\ UNCHANGED <<motionChunks, motionLayout, motionPlayer, detection>>
    /\ UNCHANGED viewerVars
    /\ UNCHANGED fireVars
    /\ UNCHANGED bondVars
    /\ UNCHANGED repeatVars
    /\ UNCHANGED scaleVars

NextMotion == ExtractPositions

SpecMotion == InitMotion /\ [][NextMotion]_vars

----------------------------------------------------------------------------
(* Input films for extractRawPositions: runs of frames of one kind *)

\* number of runs a generated film is put together from
MaxRawRuns == 2

\* a 20-byte frame record with data bytes d0..d3, d5 and d6
RecLong(type, d0, d1, d2, d3, d5, d6) ==
    Marker \o <<0, 0>> \o type \o <<0>> \o <<d0, d1, d2, d3, 0, d5, d6, 0, 0, 0>>

\* the type bytes of a base type for a player
TypeFor(baseBytes, playerIndex) ==
    <<baseBytes[1], (baseBytes[2] % 32) + playerIndex * 32, baseBytes[3], baseBytes[4]>>

\* n consecutive base-0x09 position frames 40x90005 of a player; frame i carries
\* c1 = 0x4000 + 7 i, d3 = d6 = from + i and d5 as given
Run09(playerIndex, n, from, d5) ==
    Concat([i \in 1..n |->
        RecLong(TypeFor(Base40090005, playerIndex), 64, (7 * (from + i - 1)) % 256, 0,
                from + i - 1, d5, from + i - 1)])

\* n consecutive frames 40x88064 of a player
Run88064(playerIndex, n, from) ==
    Concat([i \in 1..n |->
        RecLong(TypeFor(Base40088064, playerIndex), 0, (5 * (from + i - 1)) % 256, 0,
                (from + i - 1) % 128, 0, 0)])

\* n consecutive base-0x09 position frames 40x9004d of a player, which are no
\* exact-0005 frames; frame i carries d3 = from + i and d5 = d6 = 0, and its
\* d0 runs through 0x40..0x43 when spread is 1 and stays 0x40 when it is 0
Run09Sub(playerIndex, n, from, spread) ==
    Concat([i \in 1..n |->
        RecLong(TypeFor(Type4009004d, playerIndex), 64 + ((from + i - 1) % 4) * spread,
                (7 * (from + i - 1)) % 256, 0, from + i - 1, 0, 0)])

RawRuns ==
    {Run09(0, 19, 0, 0), Run09(0, 1, 40, 0), Run09(0, 20, 100, 2),
     Run09Sub(0, 20, 0, 0), Run09Sub(0, 20, 0, 1),
     Run88064(0, 20, 0), Run88064(0, 1, 60),
     Run09(1, 20, 50, 0), Run88064(1, 1, 3)}

\* a position frame of player 0 of which the chunk holds 16 bytes only
RawCutTail == Marker \o <<0, 0>> \o Base40090005 \o <<0>> \o <<64, 9, 0, 9, 0, 0>>

\* one chunk (k = 0) or two chunks split after run k, every chunk ending in the
\* cut frame when cut is set
RawFilm(ss, k, cut) ==
    LET tail == IF cut THEN RawCutTail ELSE <<>>
        plain == SplitFilm(ss, k)
    IN  [c \in 1..Len(plain) |-> plain[c] \o tail]

RawFilms ==
    UNION {{RawFilm(ss, k, cut) : k \in 0..(IF Len(ss) = 0 THEN 0 ELSE Len(ss) - 1),
                                  cut \in BOOLEAN} :
              ss \in UNION {[1..n -> RawRuns] : n \in 0..MaxRawRuns}}

----------------------------------------------------------------------------
(* One call of extractRawPositions *)

InitRaw ==
    /\ motionLayout = "auto"
    /\ motionPlayer \in MotionPlayers
    /\ motionChunks \in RawFilms
    /\ motionDone = FALSE
    /\ positions = <<>>
    /\ detection = NoDetection
    /\ ViewerIdle
    /\ FireIdle
    /\ BondIdle
    /\ RepeatIdle
    /\ ScaleIdle

ExtractRaw ==
    /\ ~motionDone
    /\ LET result == extractRawPositions(motionChunks, motionPlayer)
       IN  /\ positions' = result.positions
           /\ detection' = result.detection
    /\ motionDone' = TRUE
    /\ UNCHANGED <<motionChunks, motionLayout, motionPlayer>>
    /\ UNCHANGED viewerVars
    /\ UNCHANGED fireVars
    /\ UNCHANGED bondVars
    /\ UNCHANGED repeatVars
    /\ UNCHANGED scaleVars

NextRaw == ExtractRaw

SpecRaw == InitRaw /\ [][NextRaw]_vars

----------------------------------------------------------------------------
(* Input buffers for parseBond: documents written by a reference encoder for
   Bond Compact Binary v2, cut-off documents and documents with trailing bytes *)

\* number of fields of a generated top-level struct
MaxBondFields == 2

\* an unsigned LEB128 number
RECURSIVE Leb(_)
Leb(n) == IF n < 128 THEN <<n>> ELSE <<128 + (n % 128)>> \o Leb(n \div 128)

ZigZagEncode(x) == IF x >= 0 THEN 2 * x ELSE -2 * x - 1

\* the field header: the id in the top three bits, or the escapes 6 (one id
\* byte) and 7 (two id bytes, low byte first)
EncHeader(id, t) ==
    IF id <= 5 THEN <<id * 32 + t>>
    ELSE IF id <= 255 THEN <<6 * 32 + t, id>>
    ELSE <<7 * 32 + t, id % 256, id \div 256>>

RECURSIVE EncValue(_, _)
RECURSIVE EncFields(_)

\* the fields of a struct, one after the other
EncFields(fs) ==
    IF fs = <<>> THEN <<>>
    ELSE EncHeader(fs[1].id, fs[1].t) \o EncValue(fs[1].t, fs[1].v) \o EncFields(Tail(fs))

\* a value of type t; a tag from 19 on has no payload
EncValue(t, v) ==
    CASE t = 2 -> <<IF v THEN 1 ELSE 0>>
      [] t \in {3, 14} -> <<v % 256>>
      [] t \in {4, 5, 6} -> Leb(v)
      [] t \in {15, 16, 17} -> Leb(ZigZagEncode(v))
      [] t \in {7, 8} -> v
      [] t = 9 -> Leb(Len(v)) \o v
      [] t = 18 -> Leb(Len(v)) \o Concat([i \in 1..Len(v) |-> <<v[i] % 256, v[i] \div 256>>])
      [] t = 10 -> Leb(Len(EncFields(v)) + 1) \o EncFields(v) \o <<0>>
      [] t \in {11, 12} ->
            (IF Len(v.items) < 7 THEN <<(Len(v.items) + 1) * 32 + v.et>>
             ELSE <<v.et>> \o Leb(Len(v.items)))
            \o Concat([i \in 1..Len(v.items) |-> EncValue(v.et, v.items[i])])
      [] t = 13 ->
            <<v.kt, v.vt>> \o Leb(Len(v.entries))
            \o Concat([i \in 1..Len(v.entries) |->
                        EncValue(v.kt, v.entries[i].key) \o EncValue(v.vt, v.entries[i].value)])
      [] OTHER -> <<>>

\* the values fields are generated with, by tag type
FieldKinds ==
    << [t |-> 3, v |-> 200],
       [t |-> 2, v |-> TRUE],
       [t |-> 14, v |-> -3],
       [t |-> 4, v |-> 300],
       [t |-> 16, v |-> -70],
       [t |-> 7, v |-> <<0, 0, 128, 63>>],
       [t |-> 8, v |-> <<0, 0, 0, 0, 0, 0, 240, 63>>],
       [t |-> 9, v |-> <<72, 105>>],
       [t |-> 18, v |-> <<233, 8364>>],
       [t |-> 10, v |-> <<[id |-> 2, t |-> 3, v |-> 7], [id |-> 9, t |-> 9, v |-> <<97>>]>>],
       [t |-> 11, v |-> [et |-> 4, items |-> <<1, 300>>]],
       [t |-> 12, v |-> [et |-> 2, items |-> <<TRUE>>]],
       [t |-> 13, v |-> [kt |-> 3, vt |-> 9, entries |-> <<[key |-> 1, value |-> <<120>>]>>]],
       [t |-> 11, v |-> [et |-> 3, items |-> <<1, 2, 255>>]],
       [t |-> 11, v |-> [et |-> 3, items |-> <<72, 105>>]],
       [t |-> 11, v |-> [et |-> 3, items |-> <<65, 0, 66>>]],
       [t |-> 11, v |-> [et |-> 14, items |-> <<-1, 5>>]],
       [t |-> 9, v |-> <<>>],
       [t |-> 19, v |-> 0],
       [t |-> 11, v |-> [et |-> 31, items |-> <<0, 0>>]],
       [t |-> 11, v |-> [et |-> 7, items |-> << <<0, 0, 128, 63>> >>]],
       [t |-> 13, v |-> [kt |-> 3, vt |-> 25,
                         entries |-> <<[key |-> 1, value |-> 0], [key |-> 2, value |-> 0]>>]] >>

\* the kinds with a tag the decoder has no case for
UnknownKinds == {19, 20, 22}

\* the ids the fields of a generated struct get, by position
IdPool == <<1, 300, 200, 5>>

\* the struct with the fields of the given kinds
FieldsOf(kinds) ==
    [i \in 1..Len(kinds) |->
        [id |-> IdPool[i], t |-> FieldKinds[kinds[i]].t, v |-> FieldKinds[kinds[i]].v]]

\* the top-level struct with its stop byte
BodyOf(kinds) == EncFields(FieldsOf(kinds)) \o <<0>>

\* the document: outer length, then the struct
EncDocument(kinds) == Leb(Len(BodyOf(kinds))) \o BodyOf(kinds)

\* a deflate stream of one stored block, marked final
Stored(bytes) ==
    <<1, Len(bytes) % 256, Len(bytes) \div 256,
      255 - (Len(bytes) % 256), 255 - (Len(bytes) \div 256)>> \o bytes

\* the same stream in a zlib wrapper: header 78 01 and the Adler-32 of the bytes
Zlib(bytes) ==
    <<120, 1>> \o Stored(bytes)
        \o <<Shr(AdlerB(bytes), 8), AdlerB(bytes) % 256,
             Shr(AdlerA(bytes), 8), AdlerA(bytes) % 256>>

\* a compressed blob: the big-endian size, then the data
Blob(data) == <<0, 0, Len(data) \div 256, Len(data) % 256>> \o data

\* the document nested in the blobs
InnerKinds == <<4>>

\* what follows the top-level struct in a buffer:
\* zero padding, a deflate blob, a zlib blob, bytes that read as a negative
\* size, a size larger than what is left, a blob whose document ends inside
\* a float, a blob that does not inflate, and a size cut off after two bytes
Rests ==
    << <<0, 0, 0>>,
       Blob(Stored(EncDocument(InnerKinds))),
       Blob(Zlib(EncDocument(InnerKinds))),
       <<255, 1, 2, 3, 4>>,
       <<0, 0, 0, 50, 1>>,
       Blob(Stored(SubSeq(EncDocument(<<6>>), 1, 4))),
       Blob(<<7, 1, 2>>),
       <<0, 1>> >>

\* the kinds of the documents that are cut off, and of those followed by a rest
CutDocuments ==
    {<<k>> : k \in 1..Len(FieldKinds)} \cup {<<1, k>> : k \in 1..Len(FieldKinds)}
OuterDocuments == {<<>>, <<1>>, <<14>>}

\* the documents a stop or stop_base byte is put into, and the bytes put in:
\* stop_base and stop with the top three bits 0, 1, 6 and 7
TagDocuments == {<<4>>, <<1, 8>>, <<2, 4, 1>>, <<1, 1, 1, 1>>}
TagMarkers == {1, 33, 193, 225, 32, 192, 224}

\* the top-level struct with the byte marker before field number at + 1
MarkedBody(kinds, at, marker) ==
    EncFields(SubSeq(FieldsOf(kinds), 1, at)) \o <<marker>>
        \o EncFields(SubSeq(FieldsOf(kinds), at + 1, Len(kinds))) \o <<0>>

\* the structs nested in a field with a declared length of its own, and the
\* fields behind that field
NestedStructs ==
    << <<[id |-> 1, t |-> 9, v |-> <<98, 99>>]>>,
       <<[id |-> 1, t |-> 3, v |-> 3], [id |-> 2, t |-> 9, v |-> <<98, 99>>]>>,
       <<[id |-> 3, t |-> 4, v |-> 5], [id |-> 1, t |-> 2, v |-> TRUE]>>,
       <<[id |-> 195, t |-> 4, v |-> 5]>> >>
NestedTail == EncHeader(2, 3) \o <<3>> \o EncHeader(3, 4) \o <<5>>

\* the slack of the longest declared length over the length of the struct
MaxNestedSlack == 6

\* the top-level struct: field 4 is the struct number n with the declared
\* length declared, then the tail and the stop byte
NestedBody(n, declared) ==
    EncHeader(4, 10) \o Leb(declared) \o EncFields(NestedStructs[n]) \o <<0>>
        \o NestedTail \o <<0>>

\* the payloads of the byte lists: empty, text, text with a NUL, whitespace
\* and the ends of the printable range, the bytes next to that range, a high
\* byte, a NUL alone, and 999 and 1000 letters
ListPayloads ==
    << <<>>, <<72, 105>>, <<65, 0, 66>>, <<9, 10, 13, 32, 126>>, <<65, 127>>, <<31, 65>>,
       <<1, 2, 255>>, <<0>>, [i \in 1..999 |-> 65], [i \in 1..1000 |-> 65] >>

\* a list or set of one-byte elements: the element type with the count + 1 in
\* the top bits, or with the count behind it, then the payload
ByteList(elemType, payload) ==
    (IF Len(payload) < 7 THEN <<(Len(payload) + 1) * 32 + elemType>>
     ELSE <<elemType>> \o Leb(Len(payload))) \o payload

\* the top-level struct: field 1 is a list and field 2 a set of bytes
ListsBody(elemType, first, second) ==
    EncHeader(1, 11) \o ByteList(elemType, ListPayloads[first])
        \o EncHeader(2, 12) \o ByteList(elemType, ListPayloads[second]) \o <<0>>

\* the documents of up to MaxBondFields fields
RECURSIVE KindSeqs(_)
KindSeqs(n) ==
    IF n = 0 THEN {<<>>}
    ELSE KindSeqs(n - 1)
            \cup {Append(ks, k) : ks \in {x \in KindSeqs(n - 1) : Len(x) = n - 1},
                                  k \in 1..Len(FieldKinds)}

\* how a buffer is put together: a whole document; a document cut off after
\* cut bytes; a document followed by a rest, with an outer length that covers
\* the struct alone (declared 0) or the struct and the rest (declared 1); a
\* document with the byte declared put in after its first cut fields; a
\* document whose first field is a struct with the declared length declared;
\* a document of two byte lists with the payloads number cut and rest and the
\* element type declared
BondSources ==
    {[fam |-> "doc", kinds |-> ks, cut |-> 0, declared |-> 0, rest |-> 0] :
        ks \in KindSeqs(MaxBondFields)}
    \cup
    {[fam |-> "cut", kinds |-> c[1], cut |-> c[2], declared |-> 0, rest |-> 0] :
        c \in UNION {{<<ks, n>> : n \in 0..(Len(EncDocument(ks)) - 1)} : ks \in CutDocuments}}
    \cup
    {[fam |-> "rest", kinds |-> n[1], cut |-> 0, declared |-> n[2], rest |-> n[3]] :
        n \in OuterDocuments \X {0, 1} \X (1..Len(Rests))}
    \cup
    {[fam |-> "tags", kinds |-> c[1], cut |-> c[2], declared |-> c[3], rest |-> 0] :
        c \in UNION {{<<ks, at, m>> : at \in 0..Len(ks), m \in TagMarkers} : ks \in TagDocuments}}
    \cup
    {[fam |-> "nest", kinds |-> <<c[1]>>, cut |-> 0, declared |-> c[2], rest |-> 0] :
        c \in UNION {{<<n, len>> :
                          len \in 0..(Len(EncFields(NestedStructs[n])) + 1 + MaxNestedSlack)} :
                         n \in 1..Len(NestedStructs)}}
    \cup
    {[fam |-> "lists", kinds |-> <<>>, cut |-> c[1], declared |-> c[3], rest |-> c[2]] :
        c \in (1..Len(ListPayloads)) \X (1..Len(ListPayloads)) \X {3, 14}}

BufferOf(src) ==
    CASE src.fam = "doc" -> EncDocument(src.kinds)
      [] src.fam = "cut" -> SubSeq(EncDocument(src.kinds), 1, src.cut)
      [] src.fam = "rest" ->
            Leb(Len(BodyOf(src.kinds)) + src.declared * Len(Rests[src.rest]))
                \o BodyOf(src.kinds) \o Rests[src.rest]
      [] src.fam = "tags" ->
            Leb(Len(MarkedBody(src.kinds, src.cut, src.declared)))
                \o MarkedBody(src.kinds, src.cut, src.declared)
      [] src.fam = "nest" ->
            Leb(Len(NestedBody(src.kinds[1], src.declared)))
                \o NestedBody(src.kinds[1], src.declared)
      [] src.fam = "lists" ->
            Leb(Len(ListsBody(src.declared, src.cut, src.rest)))
                \o ListsBody(src.declared, src.cut, src.rest)
      [] OTHER -> <<>>

----------------------------------------------------------------------------
(* One call of parseBond *)

InitBond ==
    /\ bondSource \in BondSources
    /\ bondBuffer = BufferOf(bondSource)
    /\ bondDone = FALSE
    /\ bondResult = NoDocument
    /\ ViewerIdle
    /\ FireIdle
    /\ MotionIdle
    /\ RepeatIdle
    /\ ScaleIdle

\* parseBond(buffer): the document, or ThrownDocument when the call threw
ParseBond ==
    /\ ~bondDone
    /\ bondResult' = parseBond(bondBuffer)
    /\ bondDone' = TRUE
    /\ UNCHANGED <<bondSource, bondBuffer>>
    /\ UNCHANGED viewerVars
    /\ UNCHANGED fireVars
    /\ UNCHANGED motionVars
    /\ UNCHANGED repeatVars
    /\ UNCHANGED scaleVars

NextBond == ParseBond

SpecBond == InitBond /\ [][NextBond]_vars

----------------------------------------------------------------------------
(* The decoders called again on the buffer they were called on *)

\* buffers every decoder finds something in: a document, then a film segment,
\* then a fire event
RepeatFilmParts == {<<>>, SegPos, SegState \o SegTruncated}
RepeatFireParts == {<<>>} \cup {r \o Zeros(3) : r \in FireRecordsFew}
RepeatBuffers ==
    {EncDocument(ks) \o film \o fire :
        ks \in KindSeqs(1), film \in RepeatFilmParts, fire \in RepeatFireParts}

\* the most calls of one decoder
MaxCalls == 2

InitRepeat ==
    /\ repeatBuffer \in RepeatBuffers
    /\ repeatInput = repeatBuffer
    /\ repeatCalls = NoCalls
    /\ repeatFirst = NoOutputs
    /\ repeatLast = NoOutputs
    /\ ViewerIdle
    /\ FireIdle
    /\ MotionIdle
    /\ BondIdle
    /\ ScaleIdle

\* what a call of a decoder leaves behind: its output, kept apart when it is
\* the first call
Called(decoder, output) ==
    /\ repeatCalls[decoder] < MaxCalls
    /\ repeatCalls' = [repeatCalls EXCEPT ![decoder] = @ + 1]
    /\ repeatLast' = [repeatLast EXCEPT ![decoder] = output]
    /\ repeatFirst' = IF repeatCalls[decoder] = 0
                      THEN [repeatFirst EXCEPT ![decoder] = output]
                      ELSE repeatFirst
    /\ UNCHANGED <<repeatBuffer, repeatInput>>
    /\ UNCHANGED viewerVars
    /\ UNCHANGED fireVars
    /\ UNCHANGED motionVars
    /\ UNCHANGED bondVars
    /\ UNCHANGED scaleVars

\* parseBond(buffer)
CallParseBond == Called("bond", parseBond(repeatBuffer))

\* parseFrames(data, [0])
CallParseFrames == Called("frames", parseFrames(repeatBuffer, <<0>>))

\* scanFireEvents(data, [0])
CallScanFireEvents == Called("fire", scanFireEvents(repeatBuffer, <<0>>))

NextRepeat ==
    \/ CallParseBond
    \/ CallParseFrames
    \/ CallScanFireEvents

SpecRepeat == InitRepeat /\ [][NextRepeat]_vars


----------------------------------------------------------------------------
(* The aim page: the objects of a map and the position frames of player 0,
   scaled once. *)

\* the longest generated path, in steps after its first frame
MaxScalePathSteps == 3

Obj(x, y, spawn) == [x |-> x, y |-> y, spawn |-> spawn]

\* the object lists: spawn ('Spawn Point [Initial]') in a corner, two spawns,
\* a spawn in the middle, objects on one horizontal line, no spawn, one
\* object, objects on one vertical line, a small map, no objects
ObjectLists ==
    { <<Obj(10, 10, TRUE), Obj(30, 20, FALSE)>>,
      <<Obj(30, 20, TRUE), Obj(10, 10, TRUE), Obj(20, 15, FALSE)>>,
      <<Obj(20, 15, TRUE), Obj(10, 10, FALSE), Obj(30, 20, FALSE)>>,
      <<Obj(10, 10, TRUE), Obj(30, 10, FALSE)>>,
      <<Obj(10, 10, FALSE), Obj(30, 20, FALSE)>>,
      <<Obj(10, 10, TRUE)>>,
      <<Obj(10, 10, TRUE), Obj(10, 30, FALSE)>>,
      <<Obj(10, 10, TRUE), Obj(15, 15, FALSE)>>,
      <<>> }

\* the first frame of a path: coord1 is 0x4000..0x4FFF, coord2 is 12 bits
ScalePathStarts == {<<17000, 2000>>, <<17000, 4090>>, <<17000, 10>>}

\* the steps of a path, (coord1, coord2)
ScalePathSteps == {<<2, 0>>, <<-60, 0>>, <<0, -40>>, <<0, 3>>, <<50, 30>>, <<0, 400>>}

\* the frame after a frame: coord2 = ((d2 & 0x0f) << 8) | d3 wraps at 4096
StepFrame(frame, step) ==
    [coord1 |-> frame.coord1 + step[1], coord2 |-> (frame.coord2 + step[2] + 4096) % 4096]

RECURSIVE PathsOfLength(_)
PathsOfLength(n) ==
    IF n = 0 THEN {<<[coord1 |-> st[1], coord2 |-> st[2]]>> : st \in ScalePathStarts}
    ELSE {Append(path, StepFrame(path[Len(path)], step)) :
              path \in PathsOfLength(n - 1), step \in ScalePathSteps}

\* frames.filter(f => f.isPositionFrame && f.playerIndex === 0)
PositionFrameLists == {<<>>} \cup UNION {PathsOfLength(n) : n \in 0..MaxScalePathSteps}

InitScale ==
    /\ scaleObjects \in ObjectLists
    /\ scaleFrames \in PositionFrameLists
    /\ scaleDone = FALSE
    /\ scaleLocals = NoLocals
    /\ worldPositions = <<>>
    /\ ViewerIdle
    /\ FireIdle
    /\ MotionIdle
    /\ BondIdle
    /\ RepeatIdle

\* main: mapBounds = computeMapBounds(objects);
\* worldPositions = scalePositions(posFrames, mapBounds, objects)
ScalePositions ==
    /\ ~scaleDone
    /\ scaleDone' = TRUE
    /\ LET mapBounds == computeMapBounds(scaleObjects)
       IN  /\ worldPositions' = scalePositions(scaleFrames, mapBounds, scaleObjects)
           /\ scaleLocals' = IF Len(scaleFrames) = 0 THEN [mode |-> "empty"]
                             ELSE [mapBounds |-> mapBounds] @@
                                  scalePositionsLocals(scaleFrames, mapBounds, scaleObjects)
    /\ UNCHANGED <<scaleObjects, scaleFrames>>
    /\ UNCHANGED viewerVars
    /\ UNCHANGED fireVars
    /\ UNCHANGED motionVars
    /\ UNCHANGED bondVars
    /\ UNCHANGED repeatVars

NextScale == ScalePositions

SpecScale == InitScale /\ [][NextScale]_vars

----------------------------------------------------------------------------
(* Properties of the frame scanner *)

Loaded == allData # NullData

\* the marker bytes A0 7B 42 occur at offset p of the loaded buffer
MarkerOccursAt(p) ==
    /\ p >= 0
    /\ p + 3 <= Len(allData)
    /\ SubSeq(allData, p + 1, p + 3) = Marker

FramesWithOffset(p) == {i \in 1..Len(frames) : frames[i].offset = p}

\* offset o lies in the 20-byte span of frame number i (1-based)
InSpan(o, i) == frames[i].offset <= o /\ o <= frames[i].offset + 19

\* C1: parseFrames returns exactly one frame for every occurrence of the
\* marker at an offset p with p + 20 <= length and none for any other offset;
\* the marker at offset 100 followed by 17 bytes gives one frame with offset
\* 100, the same marker in the 115-byte buffer gives no frame.
C1_OneFramePerFittingMarker ==
    Loaded =>
        /\ \A p \in 0..Len(allData) :
              Cardinality(FramesWithOffset(p)) =
                 IF MarkerOccursAt(p) /\ p + 20 <= Len(allData) THEN 1 ELSE 0
        /\ \A i \in 1..Len(frames) : frames[i].offset \in 0..Len(allData)
        /\ filmChunks = ExampleFull => Len(frames) = 1 /\ frames[1].offset = 100
        /\ filmChunks = ExampleShort => frames = <<>>

\* a loaded buffer holding a marker that fits (a frame) and one that does not
C1_Witness ==
    /\ Loaded
    /\ Len(frames) >= 1
    /\ \E p \in 0..Len(allData) : MarkerOccursAt(p) /\ p + 20 > Len(allData)

Ascending == \A i \in 1..(Len(frames) - 1) : frames[i].offset < frames[i + 1].offset

NoOverlap ==
    \A i, j \in 1..Len(frames) :
        i # j => (frames[i].offset + 19 < frames[j].offset
                  \/ frames[j].offset + 19 < frames[i].offset)

\* C2 as stated: the frames are strictly ascending by offset and no two
\* frames' 20-byte spans overlap.
C2_AscendingNoOverlap == Loaded => Ascending /\ NoOverlap

\* C2, amended: the frames are strictly ascending by offset and two frames
\* start at least 3 bytes apart (their marker bytes never overlap); the
\* 20-byte spans themselves may overlap.
C2_AscendingMarkersDisjoint ==
    Loaded => \A i \in 1..(Len(frames) - 1) : frames[i].offset + 3 <= frames[i + 1].offset

\* a loaded film with two frames whose spans overlap
C2_Witness ==
    /\ Loaded
    /\ \E i \in 1..(Len(frames) - 1) : frames[i + 1].offset <= frames[i].offset + 19

\* the answer of a linear search for an enclosing frame to offset o agrees with r
AgreesWithLinearSearch(o, r) ==
    /\ r = Null <=> ~ \E i \in 1..Len(frames) : InSpan(o, i)
    /\ r # Null => r + 1 \in 1..Len(frames) /\ InSpan(o, r + 1)

----------------------------------------------------------------------------
(* Properties of the fire scanner *)

\* the logical byte at stream offset i: the low nibble of byte i and the
\* high nibble of byte i + 1 of the scanned buffer
StreamByte(i) ==
    LET nibs == Nibbles(fireData)
    IN  nibs[2 * i + 2] * 16 + nibs[2 * i + 3]

StreamBytes(i, n) == [k \in 1..n |-> StreamByte(i + k - 1)]

\* offsets at which 17 logical bytes can be read
RecordOffsets == 0..(Len(fireData) - 18)

LeadAt(i) ==
    /\ StreamByte(i) = 13
    /\ StreamByte(i + 1) = 38
    /\ StreamByte(i + 3) \in 64..67

SlotAndCounterPass(i) == StreamByte(i + 5) \in {1, 3} /\ StreamByte(i + 4) % 4 = 0

SuffixAt(i) == StreamBytes(i + 10, 4) = <<66, 201, 103, 159>>

EventsAt(i) == {k \in 1..Len(events) : events[k].offset = i}

\* C4: every emitted event has a fire counter divisible by 4, a slot equal
\* to 1 or 3 and a weapon identifier ending in 42c9679f, all read from the
\* record at its offset; a candidate that matches the lead signature and
\* passes the slot and counter checks but whose identifier does not end in
\* the suffix is not emitted.
C4_EventsPassAllChecks ==
    fireScanned =>
        /\ \A k \in 1..Len(events) :
              LET e == events[k]
              IN  /\ e.counter % 4 = 0
                  /\ e.slot \in {1, 3}
                  /\ Len(e.weaponId) = 16
                  /\ SubSeq(e.weaponId, 9, 16) = WEAPON_SUFFIX
                  /\ e.offset \in RecordOffsets
                  /\ e.counter = StreamByte(e.offset + 4)
                  /\ e.slot = StreamByte(e.offset + 5)
                  /\ e.weaponId = Nibbles(StreamBytes(e.offset + 6, 8))
        /\ \A i \in RecordOffsets :
              (LeadAt(i) /\ SlotAndCounterPass(i) /\ ~SuffixAt(i)) => EventsAt(i) = {}

\* a scan that emitted an event from a buffer that also holds a candidate
\* rejected only for its suffix
C4_Witness ==
    /\ fireScanned
    /\ events # <<>>
    /\ \E i \in RecordOffsets :
          LeadAt(i) /\ SlotAndCounterPass(i) /\ ~SuffixAt(i) /\ i < Len(fireData) - 20

TableIds == {e[1] : e \in WEAPON_IDS}

EventsNamed(name) == {k \in 1..Len(events) : events[k].weaponName = name}

RECURSIVE SumCounts(_, _)
SumCounts(counts, names) ==
    IF names = {} THEN 0
    ELSE LET n == CHOOSE x \in names : TRUE
         IN  counts[n] + SumCounts(counts, names \ {n})

\* C6: a record at a scanned offset (i < length - 20) that passes every
\* check is kept as an event also when its weapon identifier is not in the
\* name table, then under the name 'Unknown'; after the scan weaponCounts holds for every name the number
\* of events with that name, and the counts sum to events.length.
C6_UnknownKeptCountsExact ==
    fireScanned =>
        /\ \A i \in RecordOffsets :
              (i < Len(fireData) - 20 /\ LeadAt(i) /\ SlotAndCounterPass(i) /\ SuffixAt(i))
                 => Cardinality(EventsAt(i)) = 1
        /\ \A k \in 1..Len(events) :
              events[k].weaponName = "Unknown" <=> events[k].weaponId \notin TableIds
        /\ DOMAIN weaponCounts = {events[k].weaponName : k \in 1..Len(events)}
        /\ \A name \in DOMAIN weaponCounts :
              weaponCounts[name] = Cardinality(EventsNamed(name))
        /\ SumCounts(weaponCounts, DOMAIN weaponCounts) = Len(events)

\* a scan that kept an event under the placeholder name next to a named one
C6_Witness ==
    /\ fireScanned
    /\ Len(events) >= 2
    /\ \E k \in 1..Len(events) : events[k].weaponName = "Unknown"
    /\ \E k \in 1..Len(events) : events[k].weaponName = "MA40 AR"

----------------------------------------------------------------------------
(* Properties of the position extractors *)

\* the steps of the returned path: i is a step when points i - 1 and i exist
PathSteps == 2..Len(positions)

RawDiff1(i) == positions[i].raw1 - positions[i - 1].raw1
RawDiff2(i) == positions[i].raw2 - positions[i - 1].raw2
CumDiff1(i) == positions[i].cumCoord1 - positions[i - 1].cumCoord1
CumDiff2(i) == positions[i].cumCoord2 - positions[i - 1].cumCoord2

Congruent(a, b, modulus) == (a - b) % modulus = 0

\* d is congruent to the raw difference and at most half the modulus in size
FoldedInto(d, rawDiff, modulus) ==
    Congruent(d, rawDiff, modulus) /\ 2 * Abs(d) <= modulus

\* the symmetric channels: both channels of the two base-0x09 layouts
SymmetricChannelsFold(i) ==
    /\ motionLayout = "base09" =>
          /\ FoldedInto(Wrap16(RawDiff1(i)), RawDiff1(i), 65536)
          /\ FoldedInto(Wrap12(RawDiff2(i)), RawDiff2(i), 4096)
          /\ CumDiff1(i) \in {0, Wrap16(RawDiff1(i))}
          /\ CumDiff2(i) \in {0, Wrap12(RawDiff2(i))}
    /\ motionLayout = "b3variant" =>
          /\ FoldedInto(Wrap9(RawDiff1(i)), RawDiff1(i), 512)
          /\ FoldedInto(Wrap8(RawDiff2(i)), RawDiff2(i), 256)
          /\ CumDiff1(i) \in {0, Wrap9(RawDiff1(i))}
          /\ CumDiff2(i) \in {0, Wrap8(RawDiff2(i))}

\* C7 as stated: on every channel but coord1 of layout 40088064 the
\* corrected delta of two consecutive raw samples is congruent to the raw
\* difference modulo the channel modulus and at most modulus/2 in size
\* (for coord2 of layout 40088064 with either of its two wrap moduli, 65536
\* or 32768, as the channel modulus); 65530 then 5 on a 16-bit channel
\* gives +11.
C7_AllSymmetricChannelsFold ==
    motionDone =>
        /\ \A i \in PathSteps : SymmetricChannelsFold(i)
        /\ motionLayout = "40088064" =>
              \E modulus \in {32768, 65536} :
                 \A i \in PathSteps :
                    /\ FoldedInto(Wrap88064C2(RawDiff2(i)), RawDiff2(i), modulus)
                    /\ CumDiff2(i) = Wrap88064C2(RawDiff2(i))
        /\ Wrap16(5 - 65530) = 11

\* C7, amended: the statement holds on both channels of the base-0x09
\* layouts (moduli 65536 and 4096, b3 variant 512 and 256), where a step
\* adds either the corrected delta or zero; on coord2 of layout 40088064 the
\* corrected delta is congruent to the raw difference modulo 32768 only and
\* lies in -16384..32767; 65530 then 5 on a 16-bit channel gives +11.
C7_Base09ChannelsFold ==
    motionDone =>
        /\ \A i \in PathSteps :
              /\ SymmetricChannelsFold(i)
              /\ motionLayout = "40088064" =>
                    /\ Congruent(Wrap88064C2(RawDiff2(i)), RawDiff2(i), 32768)
                    /\ Wrap88064C2(RawDiff2(i)) \in -16384..32767
                    /\ CumDiff2(i) = Wrap88064C2(RawDiff2(i))
                    /\ Wrap88064C1(RawDiff1(i)) = CumDiff1(i)
        /\ Wrap16(5 - 65530) = 11
        /\ Wrap88064C1(5 - 65530) = 11

\* a base-0x09 path with a step whose coord2 difference was wrapped and added
C7_Witness ==
    /\ motionDone
    /\ motionLayout = "base09"
    /\ \E i \in PathSteps :
          /\ Abs(RawDiff2(i)) > 2048
          /\ CumDiff2(i) # 0
          /\ CumDiff2(i) # RawDiff2(i)

\* the frames of chunk number c that the extractor of the layout takes as samples
SitesOfChunk(c) ==
    LET taken == SelectSeq(findMarkersCli(motionChunks[c]),
                    LAMBDA pos : Step(motionLayout, ExtractorStart, motionChunks[c], pos,
                                      motionPlayer) # ExtractorStart)
    IN  [k \in 1..Len(taken) |-> <<c, taken[k]>>]

\* the (chunk, offset) of every sample, in the order of the path
Sites == Concat([c \in 1..Len(motionChunks) |-> SitesOfChunk(c)])

\* the input that follows the marker of a sample: the rest of its chunk and the later chunks
RestAfter(site) ==
    <<SubSeq(motionChunks[site[1]], site[2] + 2, Len(motionChunks[site[1]]))>>
        \o SubSeq(motionChunks, site[1] + 1, Len(motionChunks))

\* the running totals, previous raw values and sample counter after a point
ResumeState(point) ==
    [prev1 |-> point.raw1, prev2 |-> point.raw2,
     cum1 |-> point.cumCoord1, cum2 |-> point.cumCoord2,
     frameCount |-> point.frame + 1, positions |-> <<>>]

\* C8: for each extractor the accumulation can be restarted at any sample
\* k: running the loop over the input after sample k - 1, from the running
\* totals and previous raw values of point k - 1, gives the points k..n of
\* the full run.
C8_RestartFromAnyPrefix ==
    motionDone =>
        /\ Len(Sites) = Len(positions)
        /\ \A k \in 1..(Len(positions) - 1) :
              RunChunks(motionLayout, ResumeState(positions[k]), RestAfter(Sites[k]), 1,
                        motionPlayer).positions
                 = SubSeq(positions, k + 1, Len(positions))

\* a b3-variant path of three points over two chunks with a skipped step
\* before its last point and a step that was added
C8_Witness ==
    /\ motionDone
    /\ motionLayout = "b3variant"
    /\ Len(motionChunks) = 2
    /\ Len(positions) = 3
    /\ positions[3].cumCoord1 # 0
    /\ \E i \in PathSteps : RawDiff1(i) # 0 /\ CumDiff1(i) = 0

\* C9: the first point of every path has cumCoord1 = 0 and cumCoord2 = 0
\* and the i-th point has frame = i (0, 1, 2, ... without gaps), also when
\* the path spans several chunks.
C9_StartsAtZeroFramesCount ==
    motionDone =>
        /\ positions # <<>> => positions[1].cumCoord1 = 0 /\ positions[1].cumCoord2 = 0
        /\ \A i \in 1..Len(positions) : positions[i].frame = i - 1

\* a path with points from both of two chunks whose totals have moved
C9_Witness ==
    /\ motionDone
    /\ Len(motionChunks) = 2
    /\ Extract(motionLayout, <<motionChunks[1]>>, motionPlayer) # <<>>
    /\ Extract(motionLayout, <<motionChunks[2]>>, motionPlayer) # <<>>
    /\ Len(positions) >= 3
    /\ positions[Len(positions)].cumCoord1 # 0

\* the largest discontinuity threshold of any layout
LargestThreshold == 4000

\* C10 as stated: in every layout a single step never changes a cumulative
\* coordinate by more than the layout's discontinuity threshold (at most
\* 4000, the largest threshold of any layout).
C10_EveryLayoutFilters ==
    motionDone =>
        \A i \in PathSteps :
            /\ Abs(CumDiff1(i)) <= LargestThreshold
            /\ Abs(CumDiff2(i)) <= LargestThreshold

\* C10, amended: in extractBase09Position a corrected delta above 4000 is
\* replaced by zero; in extractBase09_b3variant neither delta is added when
\* either is above 60; so a step changes a cumulative coordinate by at most
\* the threshold in these layouts.  extract40088064 has no discontinuity
\* filter: it adds every corrected delta in full.
C10_Base09LayoutsFilter ==
    motionDone =>
        \A i \in PathSteps :
            /\ motionLayout = "base09" =>
                  /\ CumDiff1(i) = IF Abs(Wrap16(RawDiff1(i))) > 4000 THEN 0
                                   ELSE Wrap16(RawDiff1(i))
                  /\ CumDiff2(i) = IF Abs(Wrap12(RawDiff2(i))) > 4000 THEN 0
                                   ELSE Wrap12(RawDiff2(i))
                  /\ Abs(CumDiff1(i)) <= 4000
                  /\ Abs(CumDiff2(i)) <= 4000
            /\ motionLayout = "b3variant" =>
                  /\ IF Abs(Wrap9(RawDiff1(i))) > 60 \/ Abs(Wrap8(RawDiff2(i))) > 60
                     THEN CumDiff1(i) = 0 /\ CumDiff2(i) = 0
                     ELSE CumDiff1(i) = Wrap9(RawDiff1(i)) /\ CumDiff2(i) = Wrap8(RawDiff2(i))
                  /\ Abs(CumDiff1(i)) <= 60
                  /\ Abs(CumDiff2(i)) <= 60
            /\ motionLayout = "40088064" =>
                  /\ CumDiff1(i) = Wrap88064C1(RawDiff1(i))
                  /\ CumDiff2(i) = Wrap88064C2(RawDiff2(i))

\* a base-0x09 path with a coord1 jump above 4000 that left the total unchanged
C10_Witness ==
    /\ motionDone
    /\ motionLayout = "base09"
    /\ \E i \in PathSteps : Abs(RawDiff1(i)) > 4000 /\ CumDiff1(i) = 0

----------------------------------------------------------------------------
(* Properties of extractRawPositions *)

RawDone == motionDone /\ motionLayout = "auto"

\* the offsets of chunk c at which a base-0x09 position frame of the player starts
PositionMarkers(c, playerIndex) ==
    {p \in 0..(Len(motionChunks[c]) - 11) :
        /\ MarkerAt(motionChunks[c], p)
        /\ IsBase09PositionFrame(motionChunks[c], p, playerIndex)}

\* the number of position frames detectBase09Variant can sample: those with
\* all of their first 17 bytes in the chunk
SampledCount(playerIndex) ==
    Cardinality({<<c, p>> \in UNION {{c} \X PositionMarkers(c, playerIndex) :
                                        c \in 1..Len(motionChunks)} :
                    p + 17 <= Len(motionChunks[c])})

\* the minimum number of sampled position frames for a detection
MinSampleCount == 20

\* the two raw candidate extractions
Candidate09 == Extract("base09", motionChunks, motionPlayer)
Candidate88064 == Extract("40088064", motionChunks, motionPlayer)

\* C11 as stated: with fewer than 20 sampled position frames the detection is
\* 'invalid' and the path returned is the candidate extraction (base-0x09 or
\* 40088064) with the most frames.
C11_InvalidFallsBackToLongest ==
    RawDone /\ SampledCount(motionPlayer) < MinSampleCount =>
        /\ detection.variant = "invalid"
        /\ positions \in {Candidate09, Candidate88064}
        /\ Len(positions) >= Len(Candidate09)
        /\ Len(positions) >= Len(Candidate88064)

\* C11, amended: with fewer than 20 sampled position frames the detection is
\* 'invalid'; extractRawPositions then returns the 40088064 extraction when
\* it has at least 20 points, and otherwise the longer of the two candidate
\* extractions, the 40088064 one on a tie.
C11_InvalidFallsBackInOrder ==
    RawDone /\ SampledCount(motionPlayer) < MinSampleCount =>
        /\ detection.variant = "invalid"
        /\ detection.frameCount = SampledCount(motionPlayer)
        /\ positions = IF Len(Candidate88064) >= MinSampleCount THEN Candidate88064
                       ELSE IF Len(Candidate09) > Len(Candidate88064) THEN Candidate09
                       ELSE Candidate88064

\* a player with 19 sampled position frames and a shorter 40088064 candidate:
\* the base-0x09 candidate is returned
C11_Witness ==
    /\ RawDone
    /\ SampledCount(motionPlayer) = 19
    /\ detection.variant = "invalid"
    /\ Candidate88064 # <<>>
    /\ positions = Candidate09
    /\ Len(positions) >= 19

\* the bytes of a chunk that belong to frames of the player: for every marker
\* of a frame with that player index, the bytes up to the next marker
FramesOfPlayer(chunk, playerIndex) ==
    LET ms == findMarkersCli(chunk)
        spanEnd(k) == IF k < Len(ms) THEN ms[k + 1] ELSE Len(chunk)
    IN  Concat([k \in 1..Len(ms) |->
            IF ms[k] + 6 < Len(chunk) /\ getPlayerIndex(At(chunk, ms[k] + 6)) = playerIndex
            THEN SubSeq(chunk, ms[k] + 1, spanEnd(k))
            ELSE <<>>])

\* the chunk list with the frames of all other players taken out
WithoutOtherPlayers(chunks, playerIndex) ==
    [c \in 1..Len(chunks) |-> FramesOfPlayer(chunks[c], playerIndex)]

\* C18: the path of player p depends only on the frames of p: the chunk list
\* and the same list without the frames of the other players give the same
\* MotionPoint list for p (so two lists that differ only in frames of other
\* players, having the same reduced list, give identical paths).
C18_PathDependsOnOwnFrames ==
    RawDone =>
        positions = extractRawPositions(WithoutOtherPlayers(motionChunks, motionPlayer),
                                        motionPlayer).positions

\* a film with frames of the player and of another player, in which taking
\* out the other player's frames changes both chunks, and a non-empty path
C18_Witness ==
    /\ RawDone
    /\ Len(motionChunks) = 2
    /\ \A c \in 1..2 :
          /\ FramesOfPlayer(motionChunks[c], motionPlayer) # motionChunks[c]
          /\ FramesOfPlayer(motionChunks[c], motionPlayer) # <<>>
    /\ Len(positions) >= 20

----------------------------------------------------------------------------
(* Properties of parseBond *)

\* parseBond returned a document
BondReturned == bondDone /\ ~bondResult.thrown

\* where the top-level struct of the buffer starts and where its decoding stops
BondContentStart == leb128u(bondBuffer, 0).pos
BondStructEnd ==
    readStructFrom(bondBuffer, BondContentStart, <<>>, BondContentStart,
                   leb128u(bondBuffer, 0).val, EmptyFields, FALSE).pos
BondBytesRead == BondStructEnd - BondContentStart

\* the bytes of the buffer behind the top-level struct
BondBytesLeft == SubSeq(bondBuffer, BondStructEnd + 1, Len(bondBuffer))

HasNested == bondResult.compressedData.k = "compressed"

\* C12: the document carries a nested compressed document only when the
\* top-level struct took fewer bytes than the outer length says and the bytes
\* behind it are not all zero; when the struct took the whole outer length
\* there is no nested document.
C12_NestedOnlyBehindShortStruct ==
    BondReturned =>
        /\ HasNested =>
              /\ BondBytesRead < bondResult.outerLength
              /\ \E i \in 1..Len(BondBytesLeft) : BondBytesLeft[i] # 0
        /\ BondBytesRead >= bondResult.outerLength => ~HasNested

\* a zlib blob behind the struct was inflated and its document decoded
C12_Witness ==
    /\ BondReturned
    /\ HasNested
    /\ bondResult.compressedData.compression = "zlib"
    /\ bondResult.compressedData.data.content.fields[1].value.num = 300
    /\ BondBytesRead < bondResult.outerLength

\* the buffer is a document cut off after bondSource.cut bytes
IsCut == bondSource.fam = "cut"

\* the layout of the generated document: the first byte of field i (counted
\* from 0), the length of its header and the length of its value
CutFields == FieldsOf(bondSource.kinds)
FieldStart(i) ==
    Len(Leb(Len(BodyOf(bondSource.kinds)))) + Len(EncFields(SubSeq(CutFields, 1, i - 1)))
HeaderLen(i) == Len(EncHeader(CutFields[i].id, CutFields[i].t))
ValueLen(i) == Len(EncValue(CutFields[i].t, CutFields[i].v))
FieldEnd(i) == FieldStart(i) + HeaderLen(i) + ValueLen(i)

\* the buffer ends inside a two-byte field id, or inside an int8, a float or
\* a double, as a field value or as a list item
EndsInFixedWidthRead ==
    /\ IsCut
    /\ \E i \in 1..Len(CutFields) :
          LET n == bondSource.cut
              s == FieldStart(i)
              h == HeaderLen(i)
              t == CutFields[i].t
          IN  \/ h = 3 /\ n \in {s + 1, s + 2}
              \/ t \in {7, 8, 14} /\ s + h <= n /\ n < FieldEnd(i)
              \/ /\ t \in {11, 12}
                 /\ CutFields[i].v.et \in {7, 8}
                 /\ s + h + 1 <= n /\ n < FieldEnd(i)

\* the fields whose bytes are all in the buffer are in the returned document
\* with the values the whole document decodes to
WholeFieldsKept ==
    \A i \in 1..Len(CutFields) :
        FieldEnd(i) <= bondSource.cut =>
            /\ CutFields[i].id \in DOMAIN bondResult.content.fields
            /\ bondResult.content.fields[CutFields[i].id] =
                  parseBond(EncDocument(bondSource.kinds)).content.fields[CutFields[i].id]

\* C13 as stated: parseBond returns a document for every buffer, and a buffer
\* that ends in the middle of a value keeps the fields decoded before it.
C13_NeverThrows ==
    bondDone => /\ ~bondResult.thrown
                /\ IsCut => WholeFieldsKept

\* C13: parseBond throws exactly when the buffer ends inside a two-byte field
\* id, an int8, a float or a double; for every other buffer, cut off or not,
\* it returns a document, and the fields decoded before the cut are kept.
C13_ThrowsOnlyInFixedWidthRead ==
    bondDone => /\ bondResult.thrown <=> EndsInFixedWidthRead
                /\ (IsCut /\ ~bondResult.thrown) => WholeFieldsKept

\* a buffer that ends inside the string of its second field: the first field
\* is kept and the string holds the one character that was there
C13_Witness ==
    /\ bondDone /\ IsCut /\ ~bondResult.thrown
    /\ bondSource.kinds = <<1, 8>>
    /\ bondSource.cut = FieldEnd(2) - 1
    /\ bondResult.content.fields[1].value.num = 200
    /\ bondResult.content.fields[300].value.str = <<72>>

\* the buffer is a whole document written by the encoder
IsWhole == bondSource.fam = "doc"
WholeFields == FieldsOf(bondSource.kinds)

\* a list of bytes, which the decoder hands back as text or as a blob
IsByteList(t, v) == t \in {11, 12} /\ v.et \in {3, 14}

\* the value the encoder was given, as the decoder writes values
RECURSIVE Expect(_, _)
RECURSIVE ExpectFields(_)
ExpectFields(fs) ==
    IF fs = <<>> THEN EmptyFields
    ELSE (fs[Len(fs)].id :> [type |-> TypeName(fs[Len(fs)].t),
                             value |-> Expect(fs[Len(fs)].t, fs[Len(fs)].v)])
            @@ ExpectFields(SubSeq(fs, 1, Len(fs) - 1))
Expect(t, v) ==
    CASE t = 2 -> [k |-> "bool", bool |-> v]
      [] t \in {3, 4, 5, 6, 14, 15, 16, 17} -> [k |-> "number", num |-> v]
      [] t = 7 -> [k |-> "float", bits |-> v]
      [] t = 8 -> [k |-> "double", bits |-> v]
      [] t \in {9, 18} -> [k |-> "string", str |-> v]
      [] t = 10 -> StructValue(ExpectFields(v), FALSE)
      [] t \in {11, 12} ->
            [k |-> "items", type |-> IF t = 12 THEN "set" ELSE "list",
             elemType |-> TypeName(v.et), count |-> Len(v.items),
             items |-> [i \in 1..Len(v.items) |-> Expect(v.et, v.items[i])]]
      [] t = 13 ->
            [k |-> "map", keyType |-> TypeName(v.kt), valType |-> TypeName(v.vt),
             count |-> Len(v.entries),
             entries |-> [i \in 1..Len(v.entries) |->
                            [key |-> Expect(v.kt, v.entries[i].key),
                             value |-> Expect(v.vt, v.entries[i].value)]]]
      [] OTHER -> [k |-> "unknown", unknownType |-> t]

\* field i of the document is in the result, with its type name
FieldPresent(i) ==
    /\ WholeFields[i].id \in DOMAIN bondResult.content.fields
    /\ bondResult.content.fields[WholeFields[i].id].type = TypeName(WholeFields[i].t)

DecodedValue(i) == bondResult.content.fields[WholeFields[i].id].value

\* field i came back with the value it was written with
FieldReproduced(i) ==
    FieldPresent(i) /\ DecodedValue(i) = Expect(WholeFields[i].t, WholeFields[i].v)

\* C14: a field, list item or map value with a tag the decoder has no case for
\* comes back as a placeholder that carries the tag number, and the fields,
\* items and entries after it are decoded all the same.
C14_UnknownTagPlaceholder ==
    (bondDone /\ IsWhole) =>
        /\ ~bondResult.thrown
        /\ \A i \in 1..Len(WholeFields) :
              /\ FieldPresent(i)
              /\ bondSource.kinds[i] \in UnknownKinds => FieldReproduced(i)
              /\ (/\ ~IsByteList(WholeFields[i].t, WholeFields[i].v)
                  /\ \E j \in 1..(i - 1) : bondSource.kinds[j] \in UnknownKinds)
                    => FieldReproduced(i)

\* a field with tag 19 came back as the placeholder for 19, and the map
\* behind it, whose values have tag 25, came back with both of its entries
C14_Witness ==
    /\ bondDone /\ IsWhole
    /\ bondSource.kinds = <<19, 22>>
    /\ bondResult.content.fields[1].value.unknownType = 19
    /\ bondResult.content.fields[300].value.entries[2].key.num = 2
    /\ bondResult.content.fields[300].value.entries[2].value.unknownType = 25

\* the bytes a string of base64 sextets stands for (64 is the padding '=')
Base64Decode(sx) ==
    Concat([g \in 1..(Len(sx) \div 4) |->
        LET s1 == sx[4 * g - 3]
            s2 == sx[4 * g - 2]
            s3 == sx[4 * g - 1]
            s4 == sx[4 * g]
        IN  <<s1 * 4 + (s2 \div 16)>>
            \o (IF s3 = 64 THEN <<>> ELSE <<(s2 % 16) * 16 + (s3 \div 4)>>)
            \o (IF s3 = 64 \/ s4 = 64 THEN <<>> ELSE <<(s3 % 4) * 64 + s4>>)])

\* the bytes of the byte list field i was written with
WrittenBytes(i) ==
    [j \in 1..Len(WholeFields[i].v.items) |-> WholeFields[i].v.items[j] % 256]

\* the bytes the result holds for field i: the characters of the text, or the
\* decoded blob the value refers to
DecodedBytes(i) ==
    IF DecodedValue(i).k = "text" THEN DecodedValue(i).data
    ELSE IF DecodedValue(i).k = "blobRef"
    THEN Base64Decode(bondResult.blobs[DecodedValue(i).blobRef + 1].data)
    ELSE <<>>

\* the byte list of field i came back with the bytes it was written with
BytesReproduced(i) ==
    /\ FieldPresent(i)
    /\ DecodedValue(i).k \in {"text", "blobRef"}
    /\ DecodedValue(i).count = Len(WrittenBytes(i))
    /\ DecodedBytes(i) = WrittenBytes(i)

\* the byte list of field i is one the decoder takes as text, and holds a NUL
TextWithNul(i) ==
    /\ Len(WrittenBytes(i)) > 0 /\ Len(WrittenBytes(i)) < 1000
    /\ \A j \in 1..Len(WrittenBytes(i)) : IsTextByte(WrittenBytes(i)[j])
    /\ \E j \in 1..Len(WrittenBytes(i)) : WrittenBytes(i)[j] = 0

\* the document was written with supported tag types only
SupportedOnly == \A i \in 1..Len(bondSource.kinds) : bondSource.kinds[i] \notin UnknownKinds

----------------------------------------------------------------------------
(* Properties of repeated decoding *)

Decoders == {"bond", "frames", "fire"}

----------------------------------------------------------------------------
(* Properties of the field map *)

\* the role of the byte at position rel (0..19) of a frame
RoleAt(rel, frame) ==
    CASE rel \in 0..2 -> FieldMarker
      [] rel \in 3..4 -> FieldTick
      [] rel \in 5..8 -> FieldFrameType
      [] rel = 9 -> FieldFormatByte
      [] rel \in 10..13 -> IF frame.isPositionFrame THEN FieldDataPos ELSE FieldDataState
      [] OTHER -> FieldDataExt

\* the frames (1-based) whose span holds offset o
FramesOver(o) == {i \in 1..Len(frames) : InSpan(o, i)}

LabelAt(o) == fieldMap[o + 1]

SameLengthAndCover ==
    /\ Len(fieldMap) = Len(allData)
    /\ \A o \in 0..(Len(allData) - 1) : LabelAt(o) # FieldNone <=> FramesOver(o) # {}

\* C17 as stated: the label buffer is as long as the input, a byte has a
\* label other than None exactly when it lies in the span of some frame, and
\* the bytes of every frame carry the role of their position in that frame.
C17_EveryFrameLabelled ==
    Loaded =>
        /\ SameLengthAndCover
        /\ \A i \in 1..Len(frames) : \A rel \in 0..19 :
              LabelAt(frames[i].offset + rel) = RoleAt(rel, frames[i])

\* C17: the label buffer is as long as the input, a byte has a label other
\* than None exactly when it lies in the span of some frame, and it carries
\* the role of its position in the last of the frames whose span holds it.
C17_LastFrameLabels ==
    Loaded =>
        /\ SameLengthAndCover
        /\ \A o \in 0..(Len(allData) - 1) :
              FramesOver(o) # {} =>
                 LET last == CHOOSE i \in FramesOver(o) : \A j \in FramesOver(o) : j <= i
                 IN  LabelAt(o) = RoleAt(o - frames[last].offset, frames[last])

\* a loaded film with a position frame and a frame of another kind, and a
\* byte in the data of one frame that is labelled as the marker of the next
C17_Witness ==
    /\ Loaded
    /\ \E i \in 1..Len(frames) : frames[i].isPositionFrame
    /\ \E i \in 1..Len(frames) : ~frames[i].isPositionFrame
    /\ \E i \in 1..(Len(frames) - 1) :
          /\ frames[i + 1].offset = frames[i].offset + 12
          /\ LabelAt(frames[i].offset + 12) = FieldMarker
          /\ LabelAt(frames[i].offset + 11) = FieldDataPos

----------------------------------------------------------------------------
(* Properties of the linked views *)

\* the frame the hex view marks: frames[state.selectedFrameIndex], when there is one
HexHighlight ==
    IF hexSelected # Null /\ hexSelected < Len(frames) THEN hexSelected ELSE Null

\* the frame whose row the frame table marks: the one with
\* frame.index === selectedFrameIndex, when there is one
TableHighlight ==
    IF tableSelected # Null /\ tableSelected < Len(frames) THEN tableSelected ELSE Null

\* C20: after any sequence of film loads, byte clicks and row clicks the hex
\* view and the frame table mark the same frame of the loaded film, the one
\* selectedFrameIndex names, or neither marks a frame.
C20_ViewsMarkSameFrame ==
    Loaded =>
        /\ HexHighlight = TableHighlight
        /\ HexHighlight = selectedFrameIndex

----------------------------------------------------------------------------
(* Properties of scalePositions *)

\* scalePositions has returned for map bounds of positive width and an anchor
AnchorGiven ==
    /\ scaleDone
    /\ scaleLocals.mode \in {"anchored", "filled", "default"}
    /\ ~scaleLocals.mapBounds.isNull
    /\ scaleLocals.mapBounds.width > 0
    /\ ~scaleLocals.spawnAnchor.isNull

ScaleDirections == {"up", "down", "left", "right"}

\* how far the raw path goes in a direction from its first sample; world x
\* falls as cumC2 grows
Excursion(dir) ==
    LET points == scaleLocals.points
        c1 == [i \in 1..Len(points) |-> points[i].cumC1]
        c2 == [i \in 1..Len(points) |-> points[i].cumC2]
    IN  CASE dir = "up" -> SeqMax(c1)
          [] dir = "down" -> -SeqMin(c1)
          [] dir = "left" -> SeqMax(c2)
          [] dir = "right" -> -SeqMin(c2)

\* the room between the anchor and the border in a direction
Room(dir) ==
    LET b == scaleLocals.mapBounds
        a == scaleLocals.spawnAnchor
    IN  CASE dir = "up" -> b.maxY - a.y
          [] dir = "down" -> a.y - b.minY
          [] dir = "left" -> a.x - b.minX
          [] dir = "right" -> b.maxX - a.x

\* the anchor lies inside the map bounds
AnchorInside == \A dir \in ScaleDirections : Room(dir) >= 0

\* the largest scaleY that keeps the path inside the border of a direction
DirectionScale(dir) ==
    LET b == scaleLocals.mapBounds
    IN  IF dir \in {"up", "down"} THEN Frac(Room(dir), Excursion(dir))
        ELSE Frac(Room(dir) * ENCODING_RATIO * b.width, b.height * Excursion(dir))

\* the directions the path goes in at all
Travelled == {dir \in ScaleDirections : Excursion(dir) > 0}

\* the scale is the least of the scales of the directions travelled, the
\* first sample lies on the anchor and every world position lies within the
\* map bounds
MinimumOfFourAndInside ==
    /\ Travelled # {} =>
           /\ \E dir \in Travelled : FracEq(scaleLocals.scaleY, DirectionScale(dir))
           /\ \A dir \in Travelled : ~FracLess(DirectionScale(dir), scaleLocals.scaleY)
    /\ FracEq(worldPositions[1].x, Frac(scaleLocals.spawnAnchor.x, 1))
    /\ FracEq(worldPositions[1].y, Frac(scaleLocals.spawnAnchor.y, 1))
    /\ \A i \in 1..Len(worldPositions) :
           InsideBounds(scaleLocals.mapBounds, worldPositions[i].x, worldPositions[i].y)

\* C19: for map bounds of positive width and an anchor lying inside them the
\* scale is the minimum over all four directions, the first sample lies on
\* the anchor and every world position of the scaled path lies within the
\* map bounds.
C19_AnchoredPathInside == (AnchorGiven /\ AnchorInside) => MinimumOfFourAndInside

\* the same for the paths of positive vertical extent, the ones the
\* anchor-constrained branch of scalePositions takes
AnchoredBranchInside ==
    (AnchorGiven /\ scaleLocals.mode = "anchored") => (AnchorInside /\ MinimumOfFourAndInside)

\* a path without vertical extent that leaves the map bounds
LevelPathOutside ==
    /\ AnchorGiven
    /\ Excursion("up") = 0 /\ Excursion("down") = 0
    /\ \E i \in 1..Len(worldPositions) :
           ~InsideBounds(scaleLocals.mapBounds, worldPositions[i].x, worldPositions[i].y)

----------------------------------------------------------------------------
(* Properties of readStruct *)

\* the buffer is a document with a stop or stop_base byte put in
IsTagged == bondSource.fam = "tags"

\* the low five bits of the byte put in
MarkerType == bondSource.declared % 32

\* the numbers of the fields written before the first stop byte of the struct
FieldsBeforeStop ==
    IF IsTagged /\ MarkerType = 0 THEN 1..bondSource.cut ELSE 1..Len(bondSource.kinds)

\* C23: a tag byte with low five bits 0 ends the struct, whatever its top
\* bits; one with low five bits 1 sets the has-base-class flag and the fields
\* behind it are decoded; every other field is stored under the id of its own
\* header (the top three bits, the next byte after 6, the next two bytes low
\* byte first after 7), not under a sum of ids.
C23_StopStopBaseAbsoluteIds ==
    (bondDone /\ (IsWhole \/ IsTagged)) =>
        /\ ~bondResult.thrown
        /\ DOMAIN bondResult.content.fields = {WholeFields[i].id : i \in FieldsBeforeStop}
        /\ \A i \in FieldsBeforeStop : FieldPresent(i)
        /\ IsTagged => \A i \in FieldsBeforeStop : FieldReproduced(i)
        /\ bondResult.content.hasBaseClass = (IsTagged /\ MarkerType = 1)

\* a struct of four fields with ids 1, 300, 200 and 5 and a stop_base byte
\* with top bits 7 behind the second: all four fields are decoded under
\* their ids and the flag is set
C23_Witness ==
    /\ bondDone /\ IsTagged
    /\ bondSource.kinds = <<1, 1, 1, 1>>
    /\ bondSource.cut = 2 /\ bondSource.declared = 225
    /\ bondResult.content.hasBaseClass
    /\ DOMAIN bondResult.content.fields = {1, 300, 200, 5}
    /\ bondResult.content.fields[5].value.num = 200

----------------------------------------------------------------------------
(* Properties of a struct-typed field *)

\* the buffer is a document whose field 4 is a struct with a declared length
IsNest == bondSource.fam = "nest"

\* the fields written into that struct, the position s its body starts at and
\* its declared length L
NestFields == NestedStructs[bondSource.kinds[1]]
NestStart == BondContentStart + 1 + Len(Leb(bondSource.declared))
NestDeclaredEnd == NestStart + bondSource.declared

\* the position of the first byte of nested field i and of the byte behind it
NestFieldStart(i) == NestStart + Len(EncFields(SubSeq(NestFields, 1, i - 1)))
NestFieldEnd(i) == NestStart + Len(EncFields(SubSeq(NestFields, 1, i)))

\* the nested fields that begin before the declared end
BeginInside == {i \in 1..Len(NestFields) : NestFieldStart(i) < NestDeclaredEnd}

\* the struct as it was decoded
NestDecoded == bondResult.content.fields[4].value

\* the top-level struct decoded from the declared end on
AfterDeclaredEnd ==
    readStructFrom(bondBuffer, NestDeclaredEnd, <<>>, BondContentStart,
                   bondResult.outerLength, EmptyFields, FALSE).val.fields

\* the cursor is at the declared end when the struct has been decoded: the
\* top-level struct goes on from there
CursorAtDeclaredEnd ==
    /\ 4 \in DOMAIN bondResult.content.fields
    /\ bondResult.content.fields =
          AfterDeclaredEnd @@ (4 :> [type |-> "struct", value |-> NestDecoded])

\* C24 as stated: no byte at a position from s+L on is read for the struct,
\* so no decoded nested field reaches past s+L, and the cursor is left at s+L.
C24_NoByteReadBeyondDeclaredEnd ==
    (bondDone /\ IsNest) =>
        /\ ~bondResult.thrown
        /\ CursorAtDeclaredEnd
        /\ \A i \in 1..Len(NestFields) :
              NestFields[i].id \in DOMAIN NestDecoded.fields => NestFieldEnd(i) <= NestDeclaredEnd

\* C24: the nested fields decoded are those that begin before s+L, each read
\* to its end even when it ends behind s+L; no field that begins at s+L or
\* behind it is decoded, and the cursor is left at s+L, whether the declared
\* length is shorter or longer than the struct.
C24_NoFieldBeginsBeyondDeclaredEnd ==
    (bondDone /\ IsNest) =>
        /\ ~bondResult.thrown
        /\ CursorAtDeclaredEnd
        /\ DOMAIN NestDecoded.fields = {NestFields[i].id : i \in BeginInside}
        /\ \A i \in BeginInside :
              NestDecoded.fields[NestFields[i].id] =
                  [type |-> TypeName(NestFields[i].t),
                   value |-> Expect(NestFields[i].t, NestFields[i].v)]

\* a struct of a byte and the string "bc" declared two bytes short: the
\* string, which begins inside, is decoded whole, and the top-level struct
\* goes on at the declared end, with the "b" read as a tag
C24_Witness ==
    /\ bondDone /\ IsNest
    /\ bondSource.kinds = <<2>>
    /\ NestFieldStart(2) < NestDeclaredEnd /\ NestFieldEnd(2) = NestDeclaredEnd + 2
    /\ NestDecoded.fields[2].value.str = <<98, 99>>
    /\ bondResult.content.fields[3].value.bool = TRUE

----------------------------------------------------------------------------
(* Properties of readList on lists of bytes *)

\* the buffer is a document of two byte lists, fields 1 and 2
IsLists == bondSource.fam = "lists"

\* the payload field f was written with, and the value it was decoded to
ListPayload(f) == ListPayloads[IF f = 1 THEN bondSource.cut ELSE bondSource.rest]
ListValue(f) == bondResult.content.fields[f].value

\* every byte is printable ASCII, a tab, a line feed, a carriage return or NUL
AllTextBytes(p) ==
    \A j \in 1..Len(p) : p[j] \in (32..126) \cup {9, 10, 13, 0}

\* the payload has from 1 to 999 bytes
WithinTextLength(p) == Len(p) >= 1 /\ Len(p) <= 999

\* the bytes a string of base64 sextets stands for, byte by byte
BlobBytes(sx) ==
    LET pad == Cardinality({k \in 1..Len(sx) : sx[k] = 64})
    IN  [j \in 1..(3 * (Len(sx) \div 4) - pad) |->
            LET g == 4 * ((j - 1) \div 3)
            IN  CASE (j - 1) % 3 = 0 -> sx[g + 1] * 4 + (sx[g + 2] \div 16)
                  [] (j - 1) % 3 = 1 -> (sx[g + 2] % 16) * 16 + (sx[g + 3] \div 4)
                  [] OTHER -> (sx[g + 3] % 4) * 64 + sx[g + 4]]

\* field f came back as text: the payload without its NUL bytes
ExposedAsText(f) ==
    /\ ListValue(f).k = "text"
    /\ ListValue(f).count = Len(ListPayload(f))
    /\ ListValue(f).data = SelectSeq(ListPayload(f), LAMBDA b : b # 0)

\* field f came back as nothing but the index of a blob, and the blob with
\* that index holds the payload
StoredAsBlob(f) ==
    /\ DOMAIN ListValue(f) = {"k", "type", "elemType", "count", "blobRef"}
    /\ ListValue(f).k = "blobRef"
    /\ ListValue(f).count = Len(ListPayload(f))
    /\ ListValue(f).blobRef + 1 \in 1..Len(bondResult.blobs)
    /\ bondResult.blobs[ListValue(f).blobRef + 1].index = ListValue(f).blobRef
    /\ bondResult.blobs[ListValue(f).blobRef + 1].length = Len(ListPayload(f))
    /\ BlobBytes(bondResult.blobs[ListValue(f).blobRef + 1].data) = ListPayload(f)

\* every blob carries its own index, and the two fields do not share a blob
BlobsIndexed ==
    /\ \A i \in 1..Len(bondResult.blobs) : bondResult.blobs[i].index = i - 1
    /\ (ListValue(1).k = "blobRef" /\ ListValue(2).k = "blobRef")
          => ListValue(1).blobRef # ListValue(2).blobRef

\* C25 as stated: a list or set of one-byte elements comes back as text when
\* every payload byte is printable, whitespace or NUL, and otherwise as the
\* index of a blob appended once for it (blobs[i].index = i).
C25_TextWheneverAllBytesText ==
    (bondDone /\ IsLists) =>
        /\ ~bondResult.thrown
        /\ BlobsIndexed
        /\ Len(bondResult.blobs) = Cardinality({f \in {1, 2} : ~AllTextBytes(ListPayload(f))})
        /\ \A f \in {1, 2} :
              IF AllTextBytes(ListPayload(f)) THEN ExposedAsText(f) ELSE StoredAsBlob(f)

\* C25: a list or set of one-byte elements comes back as text when it has
\* from 1 to 999 payload bytes and every one is printable, whitespace or NUL,
\* and otherwise as the index of a blob appended once for it
\* (blobs[i].index = i).
C25_TextWhenShortAndAllBytesText ==
    (bondDone /\ IsLists) =>
        /\ ~bondResult.thrown
        /\ BlobsIndexed
        /\ Len(bondResult.blobs) =
              Cardinality({f \in {1, 2} :
                  ~(WithinTextLength(ListPayload(f)) /\ AllTextBytes(ListPayload(f)))})
        /\ \A f \in {1, 2} :
              IF WithinTextLength(ListPayload(f)) /\ AllTextBytes(ListPayload(f))
              THEN ExposedAsText(f)
              ELSE StoredAsBlob(f)

\* an int8 list of 1000 letters and an empty set: both are stored as blobs,
\* with the indices 0 and 1
C25_Witness ==
    /\ bondDone /\ IsLists
    /\ bondSource.declared = 14
    /\ Len(ListPayload(1)) = 1000 /\ Len(ListPayload(2)) = 0
    /\ ListValue(1).blobRef = 0 /\ bondResult.blobs[1].length = 1000
    /\ ListValue(2).blobRef = 1 /\ bondResult.blobs[2].index = 1
    /\ ListValue(2).type = "set"

----------------------------------------------------------------------------
(* Properties of the scan range of scanFireEvents *)

\* the record at offset i matches the lead signature and passes the slot,
\* counter and suffix checks
RecordPasses(i) == LeadAt(i) /\ SlotAndCounterPass(i) /\ SuffixAt(i)

\* C26: every offset i at which a complete record fits (i + 17 < data.length),
\* odd or even, is tested: a record there that matches the lead signature and
\* passes the slot, counter and suffix checks is reported as one event with
\* offset i.
C26_EveryFittingOffsetScanned ==
    fireScanned =>
        \A i \in 0..(Len(fireData) - 1) :
            (i + 17 < Len(fireData) /\ RecordPasses(i)) => Cardinality(EventsAt(i)) = 1

\* a record that passes all checks and fits, with fewer than three bytes
\* behind it, and no event for it
RecordAtEndMissed ==
    /\ fireScanned
    /\ \E i \in 0..(Len(fireData) - 1) :
          /\ i + 17 < Len(fireData) /\ i >= Len(fireData) - 20
          /\ RecordPasses(i)
          /\ EventsAt(i) = {}

\* the same for the offsets with at least three bytes behind the record
ScannedWithRoomForTwenty ==
    fireScanned =>
        \A i \in 0..(Len(fireData) - 1) :
            (i + 20 < Len(fireData) /\ RecordPasses(i)) => Cardinality(EventsAt(i)) = 1

----------------------------------------------------------------------------
(* Properties of the asymmetric wrap of layout 40088064 *)

\* the raw coord1 difference with the modulus 65536 subtracted above the
\* threshold positive, added below -32768, and unchanged otherwise
AsymmetricWrap(rawDiff, positive) ==
    IF rawDiff > positive THEN rawDiff - 65536
    ELSE IF rawDiff < -32768 THEN rawDiff + 65536
    ELSE rawDiff

\* C27 as stated: on coord1 of layout 40088064 a raw difference above +49152
\* (3/4 of the modulus) has the modulus subtracted, one below -32768 has it
\* added, and every other difference is accumulated unchanged.
C27_WrapAboveThreeQuarters ==
    (motionDone /\ motionLayout = "40088064") =>
        \A i \in PathSteps : CumDiff1(i) = AsymmetricWrap(RawDiff1(i), 49152)

\* C27: on coord1 of layout 40088064 a raw difference above +16384 (1/4 of
\* the modulus) has the modulus subtracted, one below -32768 has it added,
\* and every other difference is accumulated unchanged.
C27_WrapAboveOneQuarter ==
    (motionDone /\ motionLayout = "40088064") =>
        \A i \in PathSteps : CumDiff1(i) = AsymmetricWrap(RawDiff1(i), 16384)

\* a path with a step of +20480, between the two thresholds, which was
\* accumulated as -45056, and a step of -50000 accumulated as +15536
C27_Witness ==
    /\ motionDone /\ motionLayout = "40088064"
    /\ \E i \in PathSteps : RawDiff1(i) = 20480 /\ CumDiff1(i) = -45056
    /\ \E i \in PathSteps : RawDiff1(i) = -50000 /\ CumDiff1(i) = 15536


(***************************************************************************)
(* Properties of the fields of a ParsedFrame                               *)
(***************************************************************************)
FrameIndexes == 1..Len(frames)

\* the coordinates of a frame are numbers
CoordsDefined(f) == f.coord1 # Undefined /\ f.coord2 # Undefined

\* the coordinates of a frame are both undefined
CoordsUndefined(f) == f.coord1 = Undefined /\ f.coord2 = Undefined

\* C28: every frame parseFrames returns has its position in the list as
\* index, a tick in 0..65535, playerIndex in 0..7 and baseType in 0..31 with
\* playerIndex*32 + baseType = byte6, is a position frame only when it has a
\* player, and has coord1 and coord2 exactly when it is a position frame
C28_FrameFieldsWellFormed ==
    Loaded =>
        \A k \in FrameIndexes :
            LET f == frames[k]
            IN  /\ f.index = k - 1
                /\ f.tick \in 0..65535
                /\ f.playerIndex \in 0..7
                /\ f.baseType \in 0..31
                /\ f.playerIndex * 32 + f.baseType = f.byte6
                /\ (f.isPositionFrame => f.hasPlayer)
                /\ (f.isPositionFrame => CoordsDefined(f))
                /\ (~f.isPositionFrame => CoordsUndefined(f))

\* a film was loaded that holds a position frame of a player other than 0
\* behind a frame that has a player and is no position frame
C28_Witness ==
    /\ Loaded
    /\ \E k \in FrameIndexes : frames[k].isPositionFrame /\ frames[k].playerIndex > 0
                                /\ frames[k].index > 0
    /\ \E k \in FrameIndexes : frames[k].hasPlayer /\ ~frames[k].isPositionFrame


(***************************************************************************)
(* Properties of the raw coordinates of the base-0x09 layout               *)
(***************************************************************************)
Base09Done == motionDone /\ motionLayout = "base09"

Samples == 1..Len(positions)

\* C30: in the base-0x09 position layout every raw coord1 lies in
\* 16384..20479 and every raw coord2 in 0..4095, so the raw coord1
\* difference of consecutive samples lies in -4095..4095, the 16-bit wrap
\* leaves every coord1 delta as it is, and the discontinuity filter zeroes
\* no coord2 delta
C30_RawRangesOfBase09 ==
    Base09Done =>
        /\ \A i \in Samples :
              /\ positions[i].raw1 \in 16384..20479
              /\ positions[i].raw2 \in 0..4095
        /\ \A i \in PathSteps :
              /\ RawDiff1(i) \in -4095..4095
              /\ Wrap16(RawDiff1(i)) = RawDiff1(i)
              /\ DropDiscontinuity(Wrap12(RawDiff2(i))) = Wrap12(RawDiff2(i))
              /\ CumDiff2(i) = Wrap12(RawDiff2(i))

\* a base-0x09 path that goes from the smallest raw coord1 to the largest
\* with a raw coord2 difference above the discontinuity threshold, which the
\* 12-bit wrap folds into a small delta that is added
C30_Witness ==
    /\ Base09Done
    /\ \E i \in PathSteps :
          /\ positions[i - 1].raw1 = 16384
          /\ positions[i].raw1 = 20479
          /\ Abs(RawDiff2(i)) > DISCONTINUITY_THRESHOLD_BASE09
          /\ CumDiff2(i) # 0
          /\ Abs(CumDiff2(i)) < 100


(***************************************************************************)
(* Properties of the viewer's path against the CLI's path                  *)
(***************************************************************************)
\* main of the aim page: the position frames of player 0 among the frames
\* parseFrames finds in the concatenated chunks
ViewerPosFrames ==
    SelectSeq(parseFrames(Concat(motionChunks), ChunkOffsetsOf(motionChunks)),
              LAMBDA f : f.isPositionFrame /\ f.playerIndex = 0)

\* the cumulative coordinates scalePositions builds for them
ViewerPoints == CumulativeFrom(ViewerPosFrames, 1, <<>>)

\* the CLI was asked for the base-0x09 path of player 0
CliPathOfPlayer0 == Base09Done /\ motionPlayer = 0

SameSamples ==
    /\ Len(ViewerPosFrames) = Len(positions)
    /\ \A i \in Samples :
          /\ ViewerPosFrames[i].coord1 = positions[i].raw1
          /\ ViewerPosFrames[i].coord2 = positions[i].raw2

SameCumulative ==
    /\ Len(ViewerPoints) = Len(positions)
    /\ \A i \in Samples :
          /\ ViewerPoints[i].cumC1 = positions[i].cumCoord1
          /\ ViewerPoints[i].cumC2 = positions[i].cumCoord2

\* C29: the path the viewer builds for player 0 has the same samples and the
\* same cumulative coordinates as the path of extractBase09Position(chunks, 0)
C29_ViewerPathIsCliPath ==
    CliPathOfPlayer0 => SameSamples /\ SameCumulative

\* the same samples, and a step at which the CLI replaced a coord1 delta by
\* zero that the viewer added
SameSamplesOtherTotals ==
    /\ CliPathOfPlayer0
    /\ SameSamples
    /\ \E i \in PathSteps :
          /\ CumDiff1(i) = 0
          /\ ViewerPoints[i].cumC1 - ViewerPoints[i - 1].cumC1 = RawDiff1(i)
          /\ Abs(RawDiff1(i)) > DISCONTINUITY_THRESHOLD_BASE09

\* a frame cut off by the end of its chunk that the viewer takes from the
\* concatenation and the CLI skips
ViewerTakesFrameAcrossChunks ==
    /\ CliPathOfPlayer0
    /\ Len(ViewerPosFrames) > Len(positions)

\* with the same samples the two paths differ only where the CLI's
\* discontinuity filter replaced a delta by zero
SameSamplesDifferOnlyAtJumps ==
    CliPathOfPlayer0 /\ SameSamples =>
        \A i \in PathSteps :
            /\ ViewerPoints[i].cumC2 - ViewerPoints[i - 1].cumC2 = CumDiff2(i)
            /\ \/ ViewerPoints[i].cumC1 - ViewerPoints[i - 1].cumC1 = CumDiff1(i)
               \/ Abs(RawDiff1(i)) > DISCONTINUITY_THRESHOLD_BASE09 /\ CumDiff1(i) = 0


(***************************************************************************)
(* Properties of detectBase09Variant                                       *)
(***************************************************************************)
\* the statistics of sampled frames, percentages as <<matching, total>>: the
\* b0 pattern, the distinct b3 values and the span of c1 over all of them,
\* the b5 pattern and the distinct 9-bit c2 values over the exact-0005 frames
MeasuredOn(sampled) ==
    LET exact == SelectSeq(sampled, LAMBDA r : r.exact)
        c1s == {sampled[k].c1 : k \in DOMAIN sampled}
    IN  [frameCount |-> Len(sampled),
         exactCount |-> Len(exact),
         b0 |-> <<Cardinality({k \in DOMAIN sampled : sampled[k].b0 \div 16 \in {0, 4}}),
                  Len(sampled)>>,
         b5 |-> <<Cardinality({k \in DOMAIN exact : (exact[k].b5 \div 2) % 16 = 0}),
                  Len(exact)>>,
         uniqueB3 |-> Cardinality({sampled[k].b3 : k \in DOMAIN sampled}),
         uniqueC2 |-> Cardinality({exact[k].c2_9bit : k \in DOMAIN exact}),
         c1Range |-> IF c1s = {} THEN 0
                     ELSE (CHOOSE hi \in c1s : \A c \in c1s : c <= hi)
                          - (CHOOSE lo \in c1s : \A c \in c1s : lo <= c)]

\* the statistics of the frames detectBase09Variant sampled
Measured == MeasuredOn(DetectSamples(motionChunks, motionPlayer))

\* a percentage of at least pct, of less than pct; nothing measured meets neither
AtLeastPct(part, pct) == part[2] > 0 /\ part[1] * 100 >= pct * part[2]
LessThanPct(part, pct) == part[2] > 0 /\ part[1] * 100 < pct * part[2]

\* the scoring thresholds of the three layouts
Passes9bit(b0, b5, uniqueC2) ==
    AtLeastPct(b0, 95) /\ AtLeastPct(b5, 95) /\ uniqueC2 >= 20
PassesB3variant(b0, b5, uniqueB3) ==
    AtLeastPct(b0, 95) /\ LessThanPct(b5, 50) /\ uniqueB3 >= 20
PassesStandard(uniqueB3) == uniqueB3 >= 20

\* the first layout that passes in the order 9bit, b3variant, standard
FirstPassing(b0, b5, uniqueB3, uniqueC2) ==
    IF Passes9bit(b0, b5, uniqueC2) THEN "9bit"
    ELSE IF PassesB3variant(b0, b5, uniqueB3) THEN "b3variant"
    ELSE IF PassesStandard(uniqueB3) THEN "standard"
    ELSE "invalid"

\* detectBase09Variant had the 20 sampled frames it needs to score the layouts
Scored == RawDone /\ detection.frameCount >= MinSampleCount

\* C22 as stated: the layout reported is the first in the order 9bit,
\* b3variant, standard of which every scoring threshold is met by the
\* statistics measured on the sampled frames
C22_FirstLayoutPassingOnMeasured ==
    Scored =>
        LET m == Measured
        IN  detection.variant = FirstPassing(m.b0, m.b5, m.uniqueB3, m.uniqueC2)

\* C22, amended: the layout reported is the first in the order 9bit,
\* b3variant, standard of which every scoring threshold is met by the
\* statistics returned with it; the b5 pattern and the number of distinct
\* 9-bit c2 values returned are measured on the exact-0005 frames when at
\* least 10 of them were sampled, and are otherwise set to 100 % and 100
\* when the sampled c1 values span more than 512 and to 0 % and 0 when not
C22_FirstLayoutPassingOnReturned ==
    Scored =>
        LET m == Measured
        IN  /\ detection.frameCount = m.frameCount
            /\ detection.uniqueB3 = m.uniqueB3
            /\ IF m.exactCount >= 10
               THEN /\ detection.b5PatternPct = m.b5
                    /\ detection.uniqueC2_9bit = m.uniqueC2
               ELSE IF m.c1Range > 512
               THEN detection.b5PatternPct = <<1, 1>> /\ detection.uniqueC2_9bit = 100
               ELSE detection.b5PatternPct = <<0, 1>> /\ detection.uniqueC2_9bit = 0
            /\ detection.variant =
                  FirstPassing(m.b0, detection.b5PatternPct, detection.uniqueB3,
                               detection.uniqueC2_9bit)

\* 9bit reported on measured statistics for a film on which standard passes
\* as well
C22_Witness ==
    /\ Scored
    /\ detection.variant = "9bit"
    /\ Measured.exactCount >= 10
    /\ PassesStandard(detection.uniqueB3)

\* standard reported on measured statistics: the b5 pattern holds, with
\* fewer than 20 distinct 9-bit c2 values
StandardAlone ==
    /\ Scored
    /\ detection.variant = "standard"
    /\ Measured.exactCount >= 10
    /\ Measured.uniqueC2 < 20

\* 9bit reported without an exact-0005 frame among the sampled frames
NineBitWithoutExactFrames ==
    /\ Scored
    /\ detection.variant = "9bit"
    /\ Measured.exactCount = 0

\* b3variant reported although the b5 pattern holds on every exact-0005 frame
B3variantDespiteB5Pattern ==
    /\ Scored
    /\ detection.variant = "b3variant"
    /\ Measured.exactCount > 0
    /\ Measured.b5[1] = Measured.b5[2]

\* no layout passes with 20 or more sampled frames
NoLayoutPasses == Scored /\ detection.variant = "invalid"


(***************************************************************************)
(* Properties of decodeOctahedralAim                                       *)
(***************************************************************************)
EventIndexes == 1..Len(events)

\* bit n of the octant byte is set
OctantBit(octantByte, n) == (octantByte \div (2 ^ n)) % 2 = 1

\* the vector (x, y, z) / sqrt(lenSq) has length 1
UnitLength(d) == d.lenSq > 0 /\ d.x * d.x + d.y * d.y + d.z * d.z = d.lenSq

\* a component is non-positive when its octant bit is set, non-negative when not
SignFollowsBit(component, octantByte, n) ==
    IF OctantBit(octantByte, n) THEN component <= 0 ELSE component >= 0

\* the vector (x, y, z) / sqrt(lenSq) is (1, 0, 0)
IsUnitX(d) == d.x > 0 /\ d.x * d.x = d.lenSq /\ d.y = 0 /\ d.z = 0

\* C21: the aim direction of every event is a vector of length 1 whose x, y
\* and z components are non-positive when bit 0, 1 and 2 of the octant byte
\* is set and non-negative when it is not; octant 0 with the face code
\* u = 255, v = 0 gives (1, 0, 0)
C21_UnitVectorWithOctantSigns ==
    fireScanned =>
        \A k \in EventIndexes :
            LET e == events[k]
                d == e.aimDirection
            IN  /\ UnitLength(d)
                /\ SignFollowsBit(d.x, e.octantByte, 0)
                /\ SignFollowsBit(d.y, e.octantByte, 1)
                /\ SignFollowsBit(d.z, e.octantByte, 2)
                /\ e.octantByte = 0 /\ e.aimUint16 = 65280 => IsUnitX(d)

\* an event of octant 0 with the face code u = 255, v = 0
C21_Witness ==
    /\ fireScanned
    /\ \E k \in EventIndexes :
          /\ events[k].octantByte = 0
          /\ events[k].aimUint16 = 65280
          /\ events[k].aimDirection.x = 255

\* an event with bit 2 of the octant byte set and u + v above 255, decoded
\* with a third component of zero
ClampedFaceCode ==
    /\ fireScanned
    /\ \E k \in EventIndexes :
          /\ OctantBit(events[k].octantByte, 2)
          /\ events[k].aimUint16 = 128 * 256 + 128
          /\ events[k].aimDirection.z = 0

\* an event with all three components negative
AllNegative ==
    /\ fireScanned
    /\ \E k \in EventIndexes :
          /\ events[k].octantByte = 7
          /\ events[k].aimDirection.x < 0
          /\ events[k].aimDirection.y < 0
          /\ events[k].aimDirection.z < 0

\* the fallback direction of decodeOctahedralAim is never returned for a
\* vector of length zero: with u = v = 0 the third component is 1
NoZeroVector ==
    fireScanned =>
        \A k \in EventIndexes :
            LET d == events[k].aimDirection
            IN  Abs(d.x) + Abs(d.y) + Abs(d.z) >= 255

====
